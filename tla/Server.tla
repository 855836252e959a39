------------------------------- MODULE Server -------------------------------
(***************************************************************************)
(* The life of a process (server.ts) and the chat sockets it holds         *)
(* (socket/chatSocket.ts).  The handshake asks the database who it is for, *)
(* so it may end long after it began; a stop waits until every connection  *)
(* is gone, sockets among them, and gives up after ten seconds.  The       *)
(* dollar in taka, which its nightly job fetches, is the second half.      *)
(***************************************************************************)
EXTENDS Naturals, FiniteSets, FiniteSetsExt

CONSTANTS Sockets, Readers, OwnerOf,  \* chat sockets, and whose they are
          MaxBusy                    \* bound on the requests under way at once

ASSUME ServerAssumption ==
    OwnerOf \in [Sockets -> Readers] /\ IsFiniteSet(Sockets) /\ MaxBusy \in Nat

VARIABLES process,     \* what the process is doing
          cause,       \* why it stops
          exitCode,    \* what it exited with
          busy,        \* requests under way
          socket,      \* socket[s]: a connection
          boxes,       \* boxes[u]: the map of the sockets of u, for the users it has
          banned,      \* users who are no longer active
          cut          \* ghost: requests and sockets cut off by the exit

serverVars == <<process, cause, exitCode, busy, socket, boxes, banned, cut>>

-----------------------------------------------------------------------------
Causes == {"none", "signal", "crash"}

ServerInit ==
    /\ process = "booting" /\ cause = "none" /\ exitCode = "none"
    /\ busy = 0 /\ cut = 0
    /\ socket = [s \in Sockets |-> "away"] /\ boxes = [u \in {} |-> {}]
    /\ banned = {}

Running == process \in {"up", "draining"}

\* bootstrap: a server that cannot start stops.
Boot ==
    /\ process = "booting"
    /\ \/ process' = "up" /\ UNCHANGED exitCode
       \/ process' = "exited" /\ exitCode' = "1"
    /\ UNCHANGED <<cause, busy, socket, boxes, banned, cut>>

StartRequest ==
    /\ process = "up" /\ busy < MaxBusy /\ busy' = busy + 1
    /\ UNCHANGED <<process, cause, exitCode, socket, boxes, banned, cut>>

EndRequest ==
    /\ Running /\ busy > 0 /\ busy' = busy - 1
    /\ UNCHANGED <<process, cause, exitCode, socket, boxes, banned, cut>>

\* Somebody is suspended.
Ban(u) ==
    /\ u \notin banned /\ banned' = banned \cup {u}
    /\ UNCHANGED <<process, cause, exitCode, busy, socket, boxes, cut>>

-----------------------------------------------------------------------------
\* The upgrade arrives.
Arrive(s) ==
    /\ process = "up" /\ socket[s] = "away"
    /\ socket' = [socket EXCEPT ![s] = "asking"]
    /\ UNCHANGED <<process, cause, exitCode, busy, boxes, banned, cut>>

\* authenticate
Authenticate(s) ==
    /\ Running /\ socket[s] = "asking"
    /\ socket' = [socket EXCEPT ![s] = IF OwnerOf[s] \in banned THEN "gone" ELSE "proven"]
    /\ UNCHANGED <<process, cause, exitCode, busy, boxes, banned, cut>>

\* remember
Remember(u, s) ==
    [v \in DOMAIN boxes \cup {u} |->
        (IF v \in DOMAIN boxes THEN boxes[v] ELSE {}) \cup (IF v = u THEN {s} ELSE {})]

\* forget: the entry is dropped with its last socket.
Forget(u, s) ==
    [v \in DOMAIN boxes \ {w \in {u} : w \in DOMAIN boxes /\ boxes[w] \subseteq {s}} |->
        IF v = u THEN boxes[v] \ {s} ELSE boxes[v]]

\* The socket is opened, unless the other side went away meanwhile.
OpenSocket(s) ==
    /\ Running /\ socket[s] = "proven"
    /\ socket' = [socket EXCEPT ![s] = "open"]
    /\ boxes' = Remember(OwnerOf[s], s)
    /\ UNCHANGED <<process, cause, exitCode, busy, banned, cut>>

HangUp(s) ==
    /\ Running /\ socket[s] \in {"asking", "proven", "open"}
    /\ socket' = [socket EXCEPT ![s] = IF @ = "open" THEN "closing" ELSE "gone"]
    /\ UNCHANGED <<process, cause, exitCode, busy, boxes, banned, cut>>

\* The close event.
Closed(s) ==
    /\ Running /\ socket[s] = "closing"
    /\ socket' = [socket EXCEPT ![s] = "gone"]
    /\ boxes' = Forget(OwnerOf[s], s)
    /\ UNCHANGED <<process, cause, exitCode, busy, banned, cut>>

\* deliverLocally: the sockets a message for u goes out on.
Reached(u) == IF u \in DOMAIN boxes THEN {s \in boxes[u] : socket[s] = "open"} ELSE {}

-----------------------------------------------------------------------------
\* shutdown: a second cause changes nothing.
Shutdown(why) ==
    /\ process \in {"booting", "up"} /\ process' = "draining" /\ cause' = why
    /\ UNCHANGED <<exitCode, busy, socket, boxes, banned, cut>>

\* What server.close waits for.
Attached == {s \in Sockets : socket[s] \in {"asking", "proven", "open", "closing"}}

Drained == busy = 0 /\ Attached = {}

Exit(code) ==
    /\ process' = "exited" /\ exitCode' = code
    /\ cut' = busy + Cardinality(Attached)
    /\ UNCHANGED <<cause, busy, socket, boxes, banned>>

\* finish
Finish ==
    process = "draining" /\ Drained /\ Exit(IF cause = "signal" THEN "0" ELSE "1")

\* Ten seconds later.
GiveUpAfter == process = "draining"

GiveUpStop == GiveUpAfter /\ Exit("1")

ServerNext ==
    \/ Boot \/ StartRequest \/ EndRequest \/ Finish \/ GiveUpStop
    \/ \E u \in Readers : Ban(u)
    \/ \E s \in Sockets : Arrive(s) \/ Authenticate(s) \/ OpenSocket(s) \/ HangUp(s) \/ Closed(s)
    \/ \E why \in {"signal", "crash"} : Shutdown(why)

\* The timer fires.
ServerSpec == ServerInit /\ [][ServerNext]_serverVars /\ WF_serverVars(GiveUpStop)

-----------------------------------------------------------------------------
ServerTypeOK ==
    /\ process \in {"booting", "up", "draining", "exited"} /\ cause \in Causes
    /\ exitCode \in {"none", "0", "1"} /\ busy \in 0 .. MaxBusy
    /\ socket \in [Sockets -> {"away", "asking", "proven", "open", "closing", "gone"}]
    /\ DOMAIN boxes \subseteq Readers /\ \A u \in DOMAIN boxes : boxes[u] \subseteq Sockets
    /\ cut \in Nat

(***************************************************************************)
(* The map holds what is open, under whose it is, and nobody else: a       *)
(* process that runs for months keeps no entry for those who left, and a   *)
(* message reaches every open socket of its reader.  A clean exit cuts     *)
(* nobody off.                                                             *)
(***************************************************************************)
NoSocketLost ==
    /\ \A u \in DOMAIN boxes : boxes[u] # {}
    /\ \A u \in Readers : Reached(u) = {s \in Sockets : OwnerOf[s] = u /\ socket[s] = "open"}
    /\ exitCode = "0" => cut = 0 /\ cause = "signal"

\* "Nothing may hang the stop forever" (server.ts).
StopsEnd == process = "draining" ~> process = "exited"

-----------------------------------------------------------------------------
(***************************************************************************)
(* The dollar in taka (utils/currencyRate.ts, settings/settings.service.   *)
(* ts).  The nightly job and whoever presses refresh ask the providers in  *)
(* turn and store the first usable answer under the day on which it        *)
(* arrived; an agency may set a rate of its own, which wins.               *)
(***************************************************************************)
CONSTANTS Fetchers,           \* syncs under way
          Quotes,             \* what a provider can answer, the absurd included
          NoRate,             \* no answer; nothing stored
          LastDay             \* bound on the days

ASSUME RatesAssumption ==
    /\ Quotes \subseteq Nat /\ NoRate \notin Quotes /\ LastDay \in Nat

VARIABLES rateDay,
          stored,      \* stored[d]: the rate of day d
          ownRate,     \* default_usd_rate of the agency
          fetcher,     \* fetcher[f]: a sync, and what it has been told
          known,       \* ghost: a rate has been stored
          newest,      \* ghost: what the sync that asked last was told, on its day
          lateSync         \* ghost: whether a sync stored what another had asked for since

ratesVars == <<rateDay, stored, ownRate, fetcher, known, newest, lateSync>>

-----------------------------------------------------------------------------
Rates == Quotes \cup {NoRate}
Asleep == [at |-> "asleep", provider |-> 0, rate |-> NoRate, stale |-> FALSE]

RatesInit ==
    /\ rateDay = 0 /\ stored = [d \in 0 .. LastDay |-> NoRate]
    /\ ownRate = NoRate /\ fetcher = [f \in Fetchers |-> Asleep]
    /\ known = FALSE /\ newest = NoRate /\ lateSync = FALSE

\* Outside of this the provider has changed its shape, or means another pair.
Usable(rate) == rate \in 50 .. 400

\* The cron at half past midnight, or refreshRate.
StartSync(f) ==
    /\ fetcher[f] = Asleep
    /\ fetcher' = [g \in Fetchers |->
                     IF g = f THEN [Asleep EXCEPT !.at = "asking", !.provider = 1]
                     ELSE [fetcher[g] EXCEPT !.stale = fetcher[g] # Asleep]]
    /\ UNCHANGED <<rateDay, stored, ownRate, known, newest, lateSync>>

\* A provider answers something, nothing, or not in time; the second is asked after the first.
ProviderAnswers(f) ==
    /\ fetcher[f].at = "asking"
    /\ \E rate \in Rates :
          IF rate # NoRate /\ Usable(rate)
          THEN fetcher' = [fetcher EXCEPT ![f].at = "told", ![f].rate = rate]
          ELSE IF fetcher[f].provider = 1
          THEN fetcher' = [fetcher EXCEPT ![f].provider = 2]
          ELSE fetcher' = [fetcher EXCEPT ![f] = Asleep]
    /\ UNCHANGED <<rateDay, stored, ownRate, known, newest, lateSync>>

\* The rows a sync writes: one for the day it is by now.
Upserted(rate) == [stored EXCEPT ![rateDay] = rate]

StoreRate(f) ==
    /\ fetcher[f].at = "told"
    /\ stored' = Upserted(fetcher[f].rate)
    /\ known' = TRUE
    /\ newest' = IF fetcher[f].stale THEN newest ELSE fetcher[f].rate
    /\ lateSync' = fetcher[f].stale
    /\ fetcher' = [fetcher EXCEPT ![f] = Asleep]
    /\ UNCHANGED <<rateDay, ownRate>>

\* Null clears it.
SetDefaultRate ==
    /\ ownRate' \in {r \in Rates : r = NoRate \/ Usable(r)}
    /\ UNCHANGED <<rateDay, stored, fetcher, known, newest, lateSync>>

NewDay ==
    /\ rateDay < LastDay /\ rateDay' = rateDay + 1
    /\ UNCHANGED <<stored, ownRate, fetcher, known, newest, lateSync>>

RatesNext ==
    \/ \E f \in Fetchers : StartSync(f) \/ ProviderAnswers(f) \/ StoreRate(f)
    \/ SetDefaultRate \/ NewDay

RatesSpec == RatesInit /\ [][RatesNext]_ratesVars

-----------------------------------------------------------------------------
DaysStored == {d \in 0 .. LastDay : stored[d] # NoRate}

\* Mutant of Latest: only rateDay's rate will do.
TodaysOnly == stored[rateDay]

\* The most recent row, however old.
Latest == IF DaysStored = {} THEN NoRate ELSE stored[Max(DaysStored)]

\* getReportingRate: what a payment recorded now would use.
ReportingRate == IF ownRate # NoRate THEN ownRate ELSE Latest

\* getRateSettings: where that comes from.
EffectiveSource == IF ownRate # NoRate THEN "manual" ELSE "api"

RatesTypeOK ==
    /\ rateDay \in 0 .. LastDay /\ stored \in [0 .. LastDay -> Rates] /\ ownRate \in Rates
    /\ fetcher \in [Fetchers -> [at : {"asleep", "asking", "told"}, provider : 0 .. 2,
                                 rate : Rates, stale : BOOLEAN]]
    /\ known \in BOOLEAN /\ newest \in Rates /\ lateSync \in BOOLEAN

(***************************************************************************)
(* A missing rate degrades to the last known one: once there is a rate a   *)
(* payment always has one, a plausible one, and it is the answer to the    *)
(* sync that asked last unless that was overtaken by one that asked before.*)
(***************************************************************************)
RateAtHandUnlessLate ==
    /\ known => ReportingRate # NoRate
    /\ ReportingRate # NoRate => Usable(ReportingRate)
    /\ EffectiveSource = "api" /\ known /\ ~lateSync => ReportingRate = newest
=============================================================================
