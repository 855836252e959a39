------------------------------ MODULE ChatBus -------------------------------
(***************************************************************************)
(* How one instance keeps listening on the chat channel (chatBus.ts): one  *)
(* connection of its own to the database, and a new one, after a wait,     *)
(* when that is lost.  A lost connection is reported more than once: by    *)
(* its error event, its end event and the failure of a connect under way.  *)
(***************************************************************************)
EXTENDS Naturals, FiniteSets

CONSTANTS Connections,    \* objects pg.Client; one whose reports are all in is used again
          Nothing         \* client is null

ASSUME ChatBusAssumption == Nothing \notin Connections

VARIABLES conn,      \* conn[n]: what has become of connection n
          reports,   \* reports[n]: events and failures of n yet to be handled
          retiredConns,  \* connections whose loss was handled
          client,    \* the connection that listens, or Nothing
          timers,    \* reconnects that wait
          closed     \* stopChatBus was called

busVars == <<conn, reports, retiredConns, client, timers, closed>>

-----------------------------------------------------------------------------
Reports == {"error", "end", "failed"}
Open    == {n \in Connections : conn[n] \in {"connecting", "listening"}}

BusInit ==
    /\ conn = [n \in Connections |-> "unused"]
    /\ reports = [n \in Connections |-> {}]
    /\ retiredConns = {} /\ client = Nothing
    /\ timers = 1            \* startChatBus connects at once
    /\ closed = FALSE

\* connect, up to its first await.
Connect(n) ==
    /\ timers > 0 /\ timers' = timers - 1
    /\ IF closed THEN UNCHANGED <<conn, retiredConns>>
       ELSE /\ conn[n] \in {"unused", "ended"} /\ reports[n] = {}
            /\ conn' = [conn EXCEPT ![n] = "connecting"]
            /\ retiredConns' = retiredConns \ {n}
    /\ UNCHANGED <<reports, client, closed>>

Unwanted(n) == closed \/ n \in retiredConns

\* The connection is there and listens; it may be too late for it.
Connected(n) ==
    /\ conn[n] = "connecting" /\ "failed" \notin reports[n]
    /\ IF Unwanted(n)
       THEN /\ conn' = [conn EXCEPT ![n] = "ended"]
            /\ reports' = [reports EXCEPT ![n] = @ \cup {"end"}]
            /\ UNCHANGED client
       ELSE /\ conn' = [conn EXCEPT ![n] = "listening"]
            /\ client' = n
            /\ UNCHANGED reports
    /\ UNCHANGED <<retiredConns, timers, closed>>

\* The database cannot be reached: the connect fails, with or without events.
CannotConnect(n) ==
    /\ conn[n] = "connecting" /\ "failed" \notin reports[n]
    /\ \E events \in SUBSET {"error", "end"} :
          reports' = [reports EXCEPT ![n] = @ \cup events \cup {"failed"}]
    /\ UNCHANGED <<conn, retiredConns, client, timers, closed>>

\* An event comes while the connect still waits: for LISTEN, or for a slow server.
Stumble(n) ==
    /\ conn[n] = "connecting" /\ n \notin retiredConns /\ reports[n] = {}
    /\ reports' = [reports EXCEPT ![n] = {"error"}]
    /\ UNCHANGED <<conn, retiredConns, client, timers, closed>>

\* The database closes or loses the connection.
Drop(n) ==
    /\ conn[n] = "listening"
    /\ conn' = [conn EXCEPT ![n] = "ended"]
    /\ \E events \in {{"end"}, {"error", "end"}} :
          reports' = [reports EXCEPT ![n] = @ \cup events]
    /\ UNCHANGED <<retiredConns, client, timers, closed>>

\* Mutant of ScheduledBy: every report schedules a reconnect.
EveryReport(n) == 1

\* Mutant of ScheduledBy: a connect that fails is only logged.
OnceThereOnly(n) == IF n \in retiredConns \/ client # n THEN 0 ELSE 1

\* retire: only the first report schedules a reconnect.
ScheduledBy(n) == IF n \in retiredConns THEN 0 ELSE 1

Retire(n, report) ==
    /\ report \in reports[n]
    /\ timers' = IF closed THEN timers ELSE timers + ScheduledBy(n)
    /\ client' = IF client = n THEN Nothing ELSE client
    /\ retiredConns' = retiredConns \cup {n}
    /\ reports' = [reports EXCEPT ![n] = @ \ {report}]
    /\ conn' = [conn EXCEPT ![n] = IF @ = "connecting" /\ report # "failed" THEN @ ELSE "ended"]
    /\ UNCHANGED closed

Stop ==
    /\ ~closed /\ closed' = TRUE
    /\ client' = Nothing
    /\ IF client = Nothing THEN UNCHANGED <<conn, reports>>
       ELSE /\ conn' = [conn EXCEPT ![client] = "ended"]
            /\ reports' = [reports EXCEPT ![client] = @ \cup {"end"}]
    /\ UNCHANGED <<retiredConns, timers>>

BusNext ==
    \/ \E n \in Connections : \/ Connect(n) \/ Connected(n) \/ CannotConnect(n) \/ Stumble(n)
                              \/ Drop(n) \/ \E report \in Reports : Retire(n, report)
    \/ Stop

\* Timers fire, events are handled, and a server that is tried again and again answers.
BusFairness ==
    /\ \A n \in Connections : \A report \in Reports : WF_busVars(Retire(n, report))
    /\ WF_busVars(\E n \in Connections : Connect(n))
    /\ \A n \in Connections : WF_busVars(Connected(n) \/ CannotConnect(n))
    /\ SF_busVars(\E n \in Connections : n \notin retiredConns /\ Connected(n))

BusSpec == BusInit /\ [][BusNext]_busVars /\ BusFairness

-----------------------------------------------------------------------------
BusTypeOK ==
    /\ conn \in [Connections -> {"unused", "connecting", "listening", "ended"}]
    /\ reports \in [Connections -> SUBSET Reports]
    /\ retiredConns \subseteq Connections /\ client \in Connections \cup {Nothing}
    /\ timers \in Nat /\ closed \in BOOLEAN

(***************************************************************************)
(* "Only the first schedules a reconnect, or listeners multiply": while    *)
(* the instance runs there is exactly one way in which it listens or will, *)
(* however often a loss is reported, and so nobody is told twice.          *)
(***************************************************************************)
OneListener ==
    /\ \A n, k \in Connections : conn[n] = "listening" /\ conn[k] = "listening" => n = k
    /\ client # Nothing => conn[client] \in {"listening", "ended"}
    /\ ~closed => timers + Cardinality({n \in Connections : n \notin retiredConns /\
                                           (n \in Open \/ reports[n] # {})}) = 1

(***************************************************************************)
(* "It reconnects rather than logging once and giving up": until it is     *)
(* stopped, an instance always comes to listen again; once stopped, it is  *)
(* left with no connection, the one that was on its way included.          *)
(***************************************************************************)
BusRecovers ==
    /\ []<>(closed \/ \E n \in Connections : client = n /\ conn[n] = "listening")
    /\ closed ~> [](Open = {})
=============================================================================
