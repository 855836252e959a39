------------------------------ MODULE Pipeline ------------------------------
(***************************************************************************)
(* Leads, the history of their stages, and the clients that come of them   *)
(* (lead.service.ts, leadStage.ts).  Each transaction reads the lead, and  *)
(* writes it, the move and the client together; nothing locks the lead     *)
(* from the one to the other.                                              *)
(***************************************************************************)
EXTENDS Naturals, Sequences

CONSTANTS Sellers,        \* requests under way
          Leads, NoLead,
          Stages,         \* of LeadStage, "won" apart
          NoStage,
          MaxMoves        \* a bound on the moves of a lead

ASSUME PipelineAssumption ==
    /\ NoLead \notin Leads /\ "won" \notin Stages /\ NoStage \notin Stages \cup {"won"}
    /\ MaxMoves \in Nat \ {0}

VARIABLES lead,       \* lead[l]: a row of leads
          moves,      \* moves[l]: its lead_stage_events, in the order of their insertion
          clientsOf,  \* clientsOf[l]: how many clients were created of l
          seller,     \* seller[p]: what request p has read and decided
          clashed     \* ghost: leads written by a request that another had overtaken

pipelineVars == <<lead, moves, clientsOf, seller, clashed>>

-----------------------------------------------------------------------------
AllStages == Stages \cup {"won"}
LeadRows  == [stage : AllStages \cup {NoStage}, converted : BOOLEAN, deleted : BOOLEAN]
Moves     == [from : AllStages \cup {NoStage}, to : AllStages]
NotALead  == [stage |-> NoStage, converted |-> FALSE, deleted |-> FALSE]
Away      == [op |-> "none", of |-> NoLead, from |-> NoStage, to |-> NoStage, stale |-> FALSE]

PipelineInit ==
    /\ lead = [l \in Leads |-> NotALead]
    /\ moves = [l \in Leads |-> <<>>]
    /\ clientsOf = [l \in Leads |-> 0]
    /\ seller = [p \in Sellers |-> Away]
    /\ clashed = {}

\* Mutant of Recorded: every save is a move.
EverySave(history, from, to) == Append(history, [from |-> from, to |-> to])

\* recordStageMove; a move to the stage it is in is none.
Recorded(history, from, to) ==
    IF from = to THEN history ELSE Append(history, [from |-> from, to |-> to])

CreateLead(l) ==
    /\ lead[l] = NotALead
    /\ \E stage \in AllStages :
          /\ lead' = [lead EXCEPT ![l].stage = stage]
          /\ moves' = [moves EXCEPT ![l] = Recorded(@, NoStage, stage)]
    /\ UNCHANGED <<clientsOf, seller, clashed>>

-----------------------------------------------------------------------------
OnFile(l) == lead[l].stage # NoStage /\ ~lead[l].deleted

Pursue(p, op, l, to) ==
    /\ seller[p] = Away /\ OnFile(l) /\ Len(moves[l]) < MaxMoves
    /\ seller' = [seller EXCEPT ![p] = [op |-> op, of |-> l, from |-> lead[l].stage, to |-> to,
                                        stale |-> FALSE]]
    /\ UNCHANGED <<lead, moves, clientsOf, clashed>>

\* The payload may leave the stage as it is, or take a converted lead anywhere.
UpdateLead(p, l) == \E to \in AllStages : Pursue(p, "update", l, to)

Convertible(l) == OnFile(l) /\ ~lead[l].converted

ConvertToClient(p, l) == Convertible(l) /\ Pursue(p, "convert", l, "won")

DeleteLead(p, l) == Pursue(p, "delete", l, lead[l].stage)

WriteLead(p) ==
    LET r == seller[p] IN
    /\ r.op # "none" /\ Len(moves[r.of]) < MaxMoves
    /\ lead' = [lead EXCEPT ![r.of] =
                   CASE r.op = "update"  -> [@ EXCEPT !.stage = r.to]
                     [] r.op = "convert" -> [@ EXCEPT !.stage = "won", !.converted = TRUE]
                     [] r.op = "delete"  -> [@ EXCEPT !.deleted = TRUE]]
    /\ moves' = [moves EXCEPT ![r.of] = Recorded(@, r.from, r.to)]
    /\ clientsOf' = IF r.op = "convert" THEN [clientsOf EXCEPT ![r.of] = @ + 1] ELSE clientsOf
    /\ clashed' = IF r.stale THEN clashed \cup {r.of} ELSE clashed
    /\ seller' = [q \in Sellers |->
                     IF q = p THEN Away
                     ELSE [seller[q] EXCEPT !.stale = @ \/ seller[q].of = r.of]]

PipelineNext ==
    \/ \E l \in Leads : CreateLead(l)
    \/ \E p \in Sellers, l \in Leads :
          UpdateLead(p, l) \/ ConvertToClient(p, l) \/ DeleteLead(p, l)
    \/ \E p \in Sellers : WriteLead(p)

PipelineSpec == PipelineInit /\ [][PipelineNext]_pipelineVars

-----------------------------------------------------------------------------
PipelineTypeOK ==
    /\ lead \in [Leads -> LeadRows]
    /\ \A l \in Leads : Len(moves[l]) <= MaxMoves /\ \A n \in DOMAIN moves[l] : moves[l][n] \in Moves
    /\ clientsOf \in [Leads -> Nat]
    /\ seller \in [Sellers -> [op : {"none", "update", "convert", "delete"},
                               of : Leads \cup {NoLead}, from : AllStages \cup {NoStage},
                               to : AllStages \cup {NoStage}, stale : BOOLEAN]]
    /\ clashed \subseteq Leads

\* From no stage at all to where the lead is, each move from where the last one ended.
NoHoles(l) ==
    LET path == moves[l] IN
    /\ path # <<>>
    /\ path[1].from = NoStage /\ path[Len(path)].to = lead[l].stage
    /\ \A n \in DOMAIN path : n > 1 => path[n].from = path[n - 1].to

(***************************************************************************)
(* "A history with holes is worse than none" (leadStage.ts), and a lead    *)
(* that has been converted is not converted again: unless two requests for *)
(* one lead overlapped, the moves of a lead lead to its stage without a    *)
(* hole, never to the stage they start from, and it became one client at   *)
(* most.                                                                   *)
(***************************************************************************)
HistoryHoldsUnlessRaced ==
    \A l \in Leads \ clashed :
        /\ lead[l].stage # NoStage =>
              NoHoles(l) /\ \A n \in DOMAIN moves[l] : moves[l][n].from # moves[l][n].to
        /\ clientsOf[l] <= 1 /\ (clientsOf[l] = 1 <=> lead[l].converted)
=============================================================================
