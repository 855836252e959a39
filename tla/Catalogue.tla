----------------------------- MODULE Catalogue -----------------------------
(***************************************************************************)
(* The plans a company can be put on, the plan a sign-up is put on by      *)
(* default, and what each company ended up with.  updateSettings checks    *)
(* the plan and writes it later; register reads the settings and creates   *)
(* the company later; retiring a plan asks nobody.                         *)
(***************************************************************************)
EXTENDS FiniteSets

CONSTANTS Plans, NoPlan,
          Joiners,   \* companies that come
          Desks      \* operators' requests that change the settings

ASSUME CatalogueAssumption == NoPlan \notin Plans

VARIABLES plan,         \* plan[k]: "none", "on_sale" or "off_sale"
          defaultPlan,  \* platform_settings.default_plan_id
          desk,         \* desk[p]: the plan p has checked and has still to write
          joiner,       \* joiner[c]: where its registration or its subscription stands
          landed,       \* ghost: sign-ups whose plan was off sale when they got it
          retired       \* ghost: plans taken off sale after somebody had checked them

catalogueVars == <<plan, defaultPlan, desk, joiner, landed, retired>>

-----------------------------------------------------------------------------
NotHere == [pc |-> "none", plan |-> NoPlan]
Joiner  == [pc : {"none", "registering", "here"}, plan : Plans \cup {NoPlan}]

CatalogueInit ==
    /\ plan = [k \in Plans |-> "none"]
    /\ defaultPlan = NoPlan
    /\ desk = [p \in Desks |-> NoPlan]
    /\ joiner = [c \in Joiners |-> NotHere]
    /\ landed = {} /\ retired = {}

OnSale(k) == plan[k] = "on_sale"

\* Mutant of Offered: any plan there is, which is what the foreign key accepts.
AnyPlan == {k \in Plans : plan[k] # "none"}

Offered == {k \in Plans : OnSale(k)}

CreatePlan(k) ==
    /\ plan[k] = "none"
    /\ \E sale \in {"on_sale", "off_sale"} : plan' = [plan EXCEPT ![k] = sale]
    /\ UNCHANGED <<defaultPlan, desk, joiner, landed, retired>>

\* Only is_active matters here.
UpdatePlan(k) ==
    /\ plan[k] # "none"
    /\ plan' = [plan EXCEPT ![k] = IF OnSale(k) THEN "off_sale" ELSE "on_sale"]
    /\ retired' = IF OnSale(k) THEN retired \cup {k} ELSE retired
    /\ UNCHANGED <<defaultPlan, desk, joiner, landed>>

-----------------------------------------------------------------------------
CheckDefault(p, k) ==
    /\ desk[p] = NoPlan /\ k \in Offered
    /\ desk' = [desk EXCEPT ![p] = k]
    /\ UNCHANGED <<plan, defaultPlan, joiner, landed, retired>>

WriteDefault(p) ==
    /\ desk[p] # NoPlan
    /\ defaultPlan' = desk[p]
    /\ desk' = [desk EXCEPT ![p] = NoPlan]
    /\ UNCHANGED <<plan, joiner, landed, retired>>

\* default_plan_id: null, which asks nothing.
ClearDefault ==
    /\ defaultPlan' = NoPlan
    /\ UNCHANGED <<plan, desk, joiner, landed, retired>>

-----------------------------------------------------------------------------
ReadSettings(c) ==
    /\ joiner[c] = NotHere
    /\ joiner' = [joiner EXCEPT ![c] = [pc |-> "registering", plan |-> defaultPlan]]
    /\ UNCHANGED <<plan, defaultPlan, desk, landed, retired>>

\* A company without a default plan comes in without a subscription.
CreateOrganization(c) ==
    /\ joiner[c].pc = "registering"
    /\ joiner' = [joiner EXCEPT ![c].pc = "here"]
    /\ landed' = IF joiner[c].plan # NoPlan /\ ~OnSale(joiner[c].plan)
                 THEN landed \cup {joiner[c].plan} ELSE landed
    /\ UNCHANGED <<plan, defaultPlan, desk, retired>>

\* createCompany: the plan the operator names, whatever it is, or one on sale.
CreateCompany(c) ==
    /\ joiner[c] = NotHere
    /\ \E k \in AnyPlan : joiner' = [joiner EXCEPT ![c] = [pc |-> "here", plan |-> k]]
    /\ UNCHANGED <<plan, defaultPlan, desk, landed, retired>>

\* setSubscription moves a company to any plan.
MovePlan(c) ==
    /\ joiner[c].pc = "here"
    /\ \E k \in AnyPlan : joiner' = [joiner EXCEPT ![c].plan = k]
    /\ UNCHANGED <<plan, defaultPlan, desk, landed, retired>>

CatalogueNext ==
    \/ \E k \in Plans : CreatePlan(k) \/ UpdatePlan(k)
    \/ \E p \in Desks : WriteDefault(p) \/ \E k \in Plans : CheckDefault(p, k)
    \/ ClearDefault
    \/ \E c \in Joiners :
          ReadSettings(c) \/ CreateOrganization(c) \/ CreateCompany(c) \/ MovePlan(c)

CatalogueSpec == CatalogueInit /\ [][CatalogueNext]_catalogueVars

-----------------------------------------------------------------------------
CatalogueTypeOK ==
    /\ plan \in [Plans -> {"none", "on_sale", "off_sale"}]
    /\ defaultPlan \in Plans \cup {NoPlan}
    /\ desk \in [Desks -> Plans \cup {NoPlan}]
    /\ joiner \in [Joiners -> Joiner]
    /\ landed \subseteq Plans /\ retired \subseteq Plans

(***************************************************************************)
(* No sign-up lands on a plan that was never for sale                      *)
(* (platformSettings.service.ts:52): where one lands on a plan off sale,   *)
(* the plan was retired after it had been chosen as the default.           *)
(***************************************************************************)
LandsOnSaleUnlessRetired == landed \subseteq retired

=============================================================================
