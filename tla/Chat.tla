-------------------------------- MODULE Chat --------------------------------
(***************************************************************************)
(* Conversations, who is in them, and what has been read                   *)
(* (chat.service.ts, chatMessage.service.ts).  A message is stamped when   *)
(* its request creates it and seen by others when that request commits.    *)
(***************************************************************************)
EXTENDS Naturals

CONSTANTS People,                \* each has one request under way at most
          Threads, NoThread,     \* conversations
          Texts, NoText,         \* messages
          Nobody,
          MaxTicks               \* bound on the clock that stamps

ASSUME ChatAssumption ==
    /\ NoThread \notin Threads /\ NoText \notin Texts /\ Nobody \notin People
    /\ MaxTicks \in Nat

VARIABLES thread,     \* thread[t]: a row of conversations
          readAt,     \* readAt[x], for x = <<thread, person>>: the rows of conversation_members
          text,       \* text[m]: a row of messages
          ticks,      \* the clock
          person,     \* person[p]: what the request of p is about to write
          atHand,     \* ghost: atHand[x], the messages stored when x was last read
          late        \* ghost: <<message, person>> stored after a read that its stamp precedes

chatVars == <<thread, readAt, text, ticks, person, atHand, late>>

-----------------------------------------------------------------------------
NoKey      == {}
Kinds      == {"none", "direct", "group"}      \* a project's thread is a group
Time       == 0 .. MaxTicks                    \* 0: never read
ThreadRows == [kind : Kinds, pair : SUBSET People, key : SUBSET People]
TextRows   == [in : Threads \cup {NoThread}, by : People \cup {Nobody}, at : Time]
NoneYet    == [kind |-> "none", pair |-> {}, key |-> NoKey]
Unwritten  == [in |-> NoThread, by |-> Nobody, at |-> 0]
Silent     == [op |-> "none", thread |-> NoThread, text |-> NoText, with |-> {}, key |-> NoKey,
               at |-> 0]

ChatInit ==
    /\ thread = [t \in Threads |-> NoneYet]
    /\ readAt = [x \in {} |-> 0]
    /\ text = [m \in Texts |-> Unwritten]
    /\ ticks = 0
    /\ person = [p \in People |-> Silent]
    /\ atHand = [x \in {} |-> {}] /\ late = {}

Member(t, p)  == <<t, p>> \in DOMAIN readAt    \* assertMembership
MembersOf(t)  == {p \in People : Member(t, p)}
Stored(t)     == {m \in Texts : text[m].in = t}
Unread(m, p)  == text[m].by # p /\ text[m].at > readAt[text[m].in, p]

\* The rows of the people ps are added to thread t; those already there stay as they are.
Joined(f, t, ps, x0) ==
    [x \in DOMAIN f \cup {<<t, p>> : p \in ps} |-> IF x \in DOMAIN f THEN f[x] ELSE x0]

-----------------------------------------------------------------------------
\* Both ids, sorted and joined.
DirectKey(p, q) == {p, q}

\* An existing thread is returned as it is, and nothing is written.
OpenDirect(p, q) ==
    /\ person[p] = Silent
    /\ ~\E t \in Threads : thread[t].key = DirectKey(p, q)
    /\ person' = [person EXCEPT ![p] = [Silent EXCEPT !.op = "open", !.with = {p, q},
                                                      !.key = DirectKey(p, q)]]
    /\ UNCHANGED <<thread, readAt, text, ticks, atHand, late>>

\* The unique index on direct_key; nothing when another has won.
CreateThread(p, t) ==
    LET r == person[p] IN
    /\ r.op = "open" /\ thread[t] = NoneYet
    /\ ~\E u \in Threads : thread[u].key = r.key
    /\ thread' = [thread EXCEPT ![t] = [kind |-> "direct", pair |-> r.with, key |-> r.key]]
    /\ readAt' = Joined(readAt, t, r.with, 0) /\ atHand' = Joined(atHand, t, r.with, {})
    /\ person' = [person EXCEPT ![p] = Silent]
    /\ UNCHANGED <<text, ticks, late>>

Conflict(p) ==
    /\ person[p].op = "open" /\ \E u \in Threads : thread[u].key = person[p].key
    /\ person' = [person EXCEPT ![p] = Silent]
    /\ UNCHANGED <<thread, readAt, text, ticks, atHand, late>>

CreateGroup(p, t, others) ==
    /\ person[p] = Silent /\ thread[t] = NoneYet
    /\ thread' = [thread EXCEPT ![t].kind = "group"]
    /\ readAt' = Joined(readAt, t, others \cup {p}, 0)
    /\ atHand' = Joined(atHand, t, others \cup {p}, {})
    /\ UNCHANGED <<text, ticks, person, late>>

MayJoin(t) == thread[t].kind = "group"

AddMembers(p, t, others) ==
    /\ person[p] = Silent /\ Member(t, p) /\ MayJoin(t)
    /\ readAt' = Joined(readAt, t, others, 0) /\ atHand' = Joined(atHand, t, others, {})
    /\ UNCHANGED <<thread, text, ticks, person, late>>

LeaveThread(p, t) ==
    LET others == DOMAIN readAt \ {<<t, p>>} IN
    /\ person[p] = Silent /\ Member(t, p)
    /\ readAt' = [x \in others |-> readAt[x]] /\ atHand' = [x \in others |-> atHand[x]]
    /\ late' = {y \in late : ~(y[2] = p /\ text[y[1]].in = t)}
    /\ UNCHANGED <<thread, text, ticks, person>>

-----------------------------------------------------------------------------
\* assertMembership, and the stamp.
StampMessage(p, t, m) ==
    /\ person[p] = Silent /\ Member(t, p) /\ text[m] = Unwritten
    /\ \A q \in People : person[q].text # m
    /\ ticks < MaxTicks /\ ticks' = ticks + 1
    /\ person' = [person EXCEPT ![p] = [Silent EXCEPT !.op = "send", !.thread = t, !.text = m,
                                                      !.at = ticks + 1]]
    /\ UNCHANGED <<thread, readAt, text, atHand, late>>

\* Mutant of ReadersOf: everybody's row is moved.
AllOfThem(t, p) == MembersOf(t)

ReadersOf(t, p) == {p} \cap MembersOf(t)

\* Person p reads thread t: the rows of the readers move to time at.
ReadUpTo(t, p, at, stored) ==
    /\ readAt' = [x \in DOMAIN readAt |->
                     IF x[1] = t /\ x[2] \in ReadersOf(t, p) THEN at ELSE readAt[x]]
    /\ atHand' = IF Member(t, p) THEN [atHand EXCEPT ![<<t, p>>] = stored] ELSE atHand

\* The insert, "sending is reading", and the commit.  The hint to the bus changes nothing here.
CommitMessage(p) ==
    LET r == person[p]
        t == r.thread IN
    /\ r.op = "send"
    /\ text' = [text EXCEPT ![r.text] = [in |-> t, by |-> p, at |-> r.at]]
    /\ ReadUpTo(t, p, r.at, Stored(t) \cup {r.text})
    /\ late' = late \cup {<<r.text, q>> : q \in {q \in MembersOf(t) : readAt[t, q] >= r.at}}
                    \cup {<<m, p>> : m \in {m \in Stored(t) : text[m].at > r.at}}
    /\ person' = [person EXCEPT ![p] = Silent]
    /\ UNCHANGED <<thread, ticks>>

MarkRead(p, t) ==
    /\ person[p] = Silent /\ Member(t, p) /\ ticks < MaxTicks
    /\ ticks' = ticks + 1
    /\ ReadUpTo(t, p, ticks + 1, Stored(t))
    /\ UNCHANGED <<thread, text, person, late>>

ChatNext ==
    \/ \E p, q \in People : OpenDirect(p, q)
    \/ \E p \in People, t \in Threads :
          CreateThread(p, t) \/ LeaveThread(p, t) \/ MarkRead(p, t)
    \/ \E p \in People, t \in Threads, others \in SUBSET People :
          CreateGroup(p, t, others) \/ AddMembers(p, t, others)
    \/ \E p \in People, t \in Threads, m \in Texts : StampMessage(p, t, m)
    \/ \E p \in People : CommitMessage(p) \/ Conflict(p)

ChatSpec == ChatInit /\ [][ChatNext]_chatVars

-----------------------------------------------------------------------------
ChatTypeOK ==
    /\ thread \in [Threads -> ThreadRows]
    /\ DOMAIN readAt \subseteq Threads \X People /\ \A x \in DOMAIN readAt : readAt[x] \in Time
    /\ text \in [Texts -> TextRows] /\ ticks \in Time
    /\ person \in [People -> [op : {"none", "open", "send"}, thread : Threads \cup {NoThread},
                              text : Texts \cup {NoText}, with : SUBSET People,
                              key : SUBSET People, at : Time]]
    /\ DOMAIN atHand = DOMAIN readAt /\ \A x \in DOMAIN atHand : atHand[x] \subseteq Texts
    /\ late \subseteq Texts \X People

(***************************************************************************)
(* A message is "never lost": whoever is in its thread and did not write   *)
(* it has it counted as unread until they read or write there after it was *)
(* stored.  A message stamped before such a read and committed after it is *)
(* the exception: nobody is told of it.                                    *)
(***************************************************************************)
UnreadUntilReadUnlessLate ==
    \A m \in Texts, p \in People :
        /\ text[m] # Unwritten /\ text[m].by # p /\ Member(text[m].in, p)
        /\ <<m, p>> \notin late /\ m \notin atHand[text[m].in, p]
        => Unread(m, p)

(***************************************************************************)
(* Two people who open a thread with each other at once get the same one   *)
(* (direct_key), and nobody else is ever in it.                            *)
(***************************************************************************)
DirectIsTheirs ==
    \A t \in Threads :
        thread[t].kind = "direct" =>
            /\ MembersOf(t) \subseteq thread[t].pair
            /\ \A u \in Threads : thread[u].kind = "direct" /\ thread[u].pair = thread[t].pair => u = t

=============================================================================
