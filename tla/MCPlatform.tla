----------------------------- MODULE MCPlatform -----------------------------
(***************************************************************************)
(* Instances of Operators, Catalogue, Subscription, ChatBus and both       *)
(* halves of Notices and Server for TLC.  They share no variable: a        *)
(* behaviour explores one of them, its part, while the others stay.        *)
(***************************************************************************)
EXTENDS Operators, Catalogue, Subscription, ChatBus, Notices, Server

\* Values for the constants that are functions.
RolesHere == [m \in Members |-> IF m = "ada" THEN "admin" ELSE "sales"]
AudiencesHere == [a \in Posts |-> "trialing"]
OwnersHere == [s \in Sockets |-> IF s = "x3" THEN "bo" ELSE "ada"]

VARIABLE part

platformVars == <<part, operatorVars, catalogueVars, subscriptionVars, noticeVars, busVars,
                  noticesVars, ratesVars, serverVars>>

PlatformInit ==
    /\ part \in {"operators", "catalogue", "subscription", "announcement", "bus", "notices",
                "rates", "server"}
    /\ OperatorsInit /\ CatalogueInit /\ SubscriptionInit /\ AnnouncementInit /\ BusInit
    /\ NoticesInit /\ RatesInit /\ ServerInit

\* What a step of part p leaves as it is.
OthersRest(p) ==
    /\ UNCHANGED part
    /\ IF p = "operators" THEN TRUE ELSE UNCHANGED operatorVars
    /\ IF p = "catalogue" THEN TRUE ELSE UNCHANGED catalogueVars
    /\ IF p = "subscription" THEN TRUE ELSE UNCHANGED subscriptionVars
    /\ IF p = "announcement" THEN TRUE ELSE UNCHANGED noticeVars
    /\ IF p = "bus" THEN TRUE ELSE UNCHANGED busVars
    /\ IF p = "notices" THEN TRUE ELSE UNCHANGED noticesVars
    /\ IF p = "rates" THEN TRUE ELSE UNCHANGED ratesVars
    /\ IF p = "server" THEN TRUE ELSE UNCHANGED serverVars

PlatformNext ==
    \/ part = "operators" /\ OperatorsNext /\ OthersRest("operators")
    \/ part = "catalogue" /\ CatalogueNext /\ OthersRest("catalogue")
    \/ part = "subscription" /\ SubscriptionNext /\ OthersRest("subscription")
    \/ part = "announcement" /\ AnnouncementNext /\ OthersRest("announcement")
    \/ part = "bus" /\ BusNext /\ OthersRest("bus")
    \/ part = "notices" /\ NoticesNext /\ OthersRest("notices")
    \/ part = "rates" /\ RatesNext /\ OthersRest("rates")
    \/ part = "server" /\ ServerNext /\ OthersRest("server")

(***************************************************************************)
(* The fairness, where it is explored.  The jobs start every night that    *)
(* the server is up, and the process does not stop in the middle of the    *)
(* sweep every night; the bus is told of a lost connection, a connect      *)
(* ends, and does not fail for ever; the timer of a stop fires.            *)
(***************************************************************************)
PlatformSpec ==
    /\ PlatformInit /\ [][PlatformNext]_platformVars
    /\ WF_platformVars(part = "subscription" /\ (\E s \in Sweepers : MarkPastDue(s))
                       /\ OthersRest("subscription"))
    /\ \A s \in Sweepers :
          SF_platformVars(part = "subscription" /\ SuspendOverdue(s) /\ OthersRest("subscription"))
    /\ \A n \in Connections :
          /\ \A report \in Reports :
                WF_platformVars(part = "bus" /\ Retire(n, report) /\ OthersRest("bus"))
          /\ WF_platformVars(part = "bus" /\ (Connected(n) \/ CannotConnect(n)) /\ OthersRest("bus"))
    /\ WF_platformVars(part = "bus" /\ (\E n \in Connections : Connect(n)) /\ OthersRest("bus"))
    /\ SF_platformVars(part = "bus" /\ (\E n \in Connections : n \notin retiredConns /\ Connected(n))
                       /\ OthersRest("bus"))
    /\ WF_platformVars(part = "server" /\ GiveUpStop /\ OthersRest("server"))

\* Every variable of the parts keeps its type.
PlatformTypeOK ==
    /\ OperatorsTypeOK /\ CatalogueTypeOK /\ SubscriptionTypeOK /\ AnnouncementTypeOK
    /\ BusTypeOK /\ NoticesTypeOK /\ RatesTypeOK /\ ServerTypeOK

(***************************************************************************)
(* Two overlapping changes apart, a new customer lands on a plan that is   *)
(* on sale and everybody reads one version of what was announced.          *)
(***************************************************************************)
CustomersServedUnlessRaced == LandsOnSaleUnlessRetired /\ OneVersionUnlessRaced

(***************************************************************************)
(* What the server keeps for everybody can be relied on: the bell, the     *)
(* rate of the day, and the sockets a message goes out on.                 *)
(***************************************************************************)
SharedStateTrusted == BellTrusted /\ RateAtHandUnlessLate /\ NoSocketLost

(***************************************************************************)
(* What was missed is made up for: nights the sweep did not run, and       *)
(* connections that were lost; and a stop ends.                            *)
(***************************************************************************)
ServerCatchesUp ==
    /\ MissedNightsAreCaught /\ (part = "bus" => BusRecovers)
    /\ (part = "server" => StopsEnd)
=============================================================================
