------------------------------ MODULE Notices ------------------------------
(***************************************************************************)
(* Telling people that something happened: the events there are, and whom  *)
(* each is for (shared/notify.ts), what an agency says about that          *)
(* (notificationRule.service.ts), and the bell each person clears          *)
(* (notificationBell.service.ts), which also rings for the platform's own  *)
(* announcements.  Everything told is told in the transaction of the deed. *)
(* What operators announce to customers is the second half.                *)
(***************************************************************************)
EXTENDS Naturals, FiniteSets, FiniteSetsExt, Sequences

CONSTANTS Members, RoleOf,        \* colleagues, and their roles
          EventsHere,             \* the events of an instance
          Posts, AudienceOf,      \* announcements, and whom each is for
          Tabs, NoMember,          \* open bells
          MaxDeeds                \* bound on the deeds

ASSUME NoticesAssumption ==
    /\ RoleOf \in [Members -> {"admin", "sales", "project_manager", "operations"}]
    /\ AudienceOf \in [Posts -> {"all", "trialing", "active"}]
    /\ MaxDeeds \in Nat

VARIABLES rule,      \* rule[e]: what the agency says about event e
          deed,      \* what is happening: nothing, or an event with the rule read for it
          told,      \* rows of notifications
          deeds,     \* deeds so far
          standing,  \* the status of the agency's subscription
          posted,    \* announcements published
          seen,      \* seen[m]: announcements m has read
          tab,       \* tab[t]: a bell being cleared
          half       \* ghost: a bell rang on after it was cleared, though nothing new had come

noticesVars == <<rule, deed, told, deeds, standing, posted, seen, tab, half>>

-----------------------------------------------------------------------------
\* EVENT_CATALOGUE
Directed == {"task_assigned", "leave_decided"}
DefaultRoles(event) ==
    CASE event \in {"payment_recorded", "member_awaiting_approval"} -> {"admin"}
      [] event \in {"time_awaiting_approval", "leave_requested"} -> {"admin", "project_manager"}
      [] event = "invoice_overdue" -> {"admin", "sales"}
      [] OTHER -> {}

Unsaid == [in_app |-> TRUE, roles |-> {}]
NoDeed == [event |-> "none", actor |-> NoMember, named |-> NoMember, in_app |-> TRUE, roles |-> {}]
Shut == [at |-> "shut", who |-> NoMember, audiences |-> {}, news |-> FALSE]

NoticesInit ==
    /\ rule = [e \in EventsHere |-> Unsaid] /\ deed = NoDeed
    /\ told = {} /\ deeds = 0
    /\ standing = "trialing" /\ posted = {}
    /\ seen = [m \in Members |-> {}] /\ tab = [t \in Tabs |-> Shut]
    /\ half = FALSE

\* matchesAudience
Matches(audience) ==
    \/ audience = "all"
    \/ audience = "trialing" /\ standing = "trialing"
    \/ audience = "active" /\ standing \in {"active", "past_due"}

\* ruleFor: an absent row is not off, and an empty list of roles is the default.
RuleFor(e) ==
    [in_app |-> rule[e].in_app,
     roles |-> IF rule[e].roles # {} THEN rule[e].roles ELSE DefaultRoles(e)]

\* setRule: roles are not kept for an event that goes to one person.
SetRule(e) ==
    /\ \E in_app \in BOOLEAN, roles \in {{}, {"sales"}} :
          rule' = [rule EXCEPT ![e] = [in_app |-> in_app,
                                       roles |-> IF e \in Directed THEN {} ELSE roles]]
    /\ UNCHANGED <<deed, told, deeds, standing, posted, seen, tab, half>>

\* A handler does something worth telling.  None of them raises invoice_overdue.
StartDeed(e, actor, named) ==
    /\ deed = NoDeed /\ deeds < MaxDeeds /\ e # "invoice_overdue"
    /\ deed' = [event |-> e, actor |-> actor, named |-> named,
                in_app |-> RuleFor(e).in_app, roles |-> RuleFor(e).roles]
    /\ UNCHANGED <<rule, told, deeds, standing, posted, seen, tab, half>>

\* The one person it is for, or those of the roles; never who did it.
Audience(d) ==
    (IF d.event \in Directed THEN {d.named} ELSE {m \in Members : RoleOf[m] \in d.roles})
      \ {d.actor}

\* Something new has come for the bells of ms.
Rings(ms) ==
    tab' = [t \in Tabs |-> IF tab[t].who \in ms THEN [tab[t] EXCEPT !.news = TRUE] ELSE tab[t]]

Notify ==
    /\ deed # NoDeed
    /\ LET to == IF deed.in_app THEN Audience(deed) ELSE {} IN
       /\ told' = told \cup {[n |-> deeds, event |-> deed.event, to |-> m, by |-> deed.actor,
                              read |-> FALSE] : m \in to}
       /\ Rings(to)
    /\ deeds' = deeds + 1 /\ deed' = NoDeed
    /\ UNCHANGED <<rule, standing, posted, seen, half>>

\* The transaction is rolled back, and what it told with it.
FailDeed ==
    /\ deed # NoDeed /\ deed' = NoDeed
    /\ UNCHANGED <<rule, told, deeds, standing, posted, seen, tab, half>>

Post(a) ==
    /\ a \notin posted /\ posted' = posted \cup {a} /\ Rings(Members)
    /\ UNCHANGED <<rule, deed, told, deeds, standing, seen, half>>

\* What the agency pays decides what it is shown.
ChangeStanding ==
    /\ standing' \in {"trialing", "active", "past_due"} \ {standing} /\ Rings(Members)
    /\ UNCHANGED <<rule, deed, told, deeds, posted, seen, half>>

-----------------------------------------------------------------------------
\* myAnnouncementFilter
Audiences == {x \in {"all", "trialing", "active"} : Matches(x)}
Mine(m) == {r \in told : r.to = m}
UnreadPosts(m, audiences) == {a \in posted : AudienceOf[a] \in audiences} \ seen[m]

\* getUnreadCount
Badge(m) == Cardinality({r \in Mine(m) : ~r.read}) + Cardinality(UnreadPosts(m, Audiences))

\* getMyAnnouncements: what the panel shows, by whether it is read.
Panel(m) ==
    [read   |-> {r \in Mine(m) : r.read}, unread |-> {r \in Mine(m) : ~r.read},
     posts  |-> {a \in posted : AudienceOf[a] \in Audiences}]

\* markRead: their own row, or an announcement they are shown.
MarkRead(m) ==
    /\ \/ \E r \in Mine(m) : /\ told' = (told \ {r}) \cup {[r EXCEPT !.read = TRUE]}
                             /\ UNCHANGED seen
       \/ \E a \in Panel(m).posts : /\ seen' = [seen EXCEPT ![m] = @ \cup {a}]
                                    /\ UNCHANGED told
    /\ UNCHANGED <<rule, deed, deeds, standing, posted, tab, half>>

\* markAllRead: the filter, then both sources, then the announcements found.
OpenBell(t, m) ==
    /\ tab[t] = Shut
    /\ tab' = [tab EXCEPT ![t] = [at |-> "filtered", who |-> m, audiences |-> Audiences,
                                  news |-> FALSE]]
    /\ UNCHANGED <<rule, deed, told, deeds, standing, posted, seen, half>>

Cleared(m) == {IF r.to = m THEN [r EXCEPT !.read = TRUE] ELSE r : r \in told}

ClearBell(t, m) ==
    /\ tab[t].at = "filtered" /\ tab[t].who = m
    /\ told' = Cleared(m)
    /\ seen' = [seen EXCEPT ![m] = @ \cup UnreadPosts(m, tab[t].audiences)]
    /\ tab' = [tab EXCEPT ![t] = Shut]
    /\ UNCHANGED <<rule, deed, deeds, standing, posted>>
    /\ half' = (half \/ (~tab[t].news /\ Badge(m)' > 0))

NoticesNext ==
    \/ \E e \in EventsHere : SetRule(e)
    \/ \E e \in EventsHere, a \in Members, m \in Members : StartDeed(e, a, m)
    \/ Notify \/ FailDeed \/ ChangeStanding
    \/ \E a \in Posts : Post(a)
    \/ \E m \in Members : MarkRead(m) \/ \E t \in Tabs : OpenBell(t, m) \/ ClearBell(t, m)

NoticesSpec == NoticesInit /\ [][NoticesNext]_noticesVars

-----------------------------------------------------------------------------
NoticesTypeOK ==
    /\ rule \in [EventsHere -> [in_app : BOOLEAN, roles : SUBSET {"sales"}]]
    /\ told \subseteq [n : 0 .. MaxDeeds, event : EventsHere, to : Members, by : Members,
                       read : BOOLEAN]
    /\ deeds \in 0 .. MaxDeeds
    /\ posted \subseteq Posts /\ seen \in [Members -> SUBSET Posts]
    /\ half \in BOOLEAN

(***************************************************************************)
(* The bell can be trusted: nobody hears of what they did themselves, and  *)
(* whoever clears a bell that nothing new has come for sees it at nought,  *)
(* from both of its sources.                                               *)
(***************************************************************************)
BellTrusted == ~half /\ \A r \in told : r.to # r.by

-----------------------------------------------------------------------------
(***************************************************************************)
(* Notices to customers, which operators draft, edit, publish and remove   *)
(* (announcement.service.ts).  A handler reads the notice, decides, and    *)
(* writes by id.  Publishing goes on after its transaction with the mail,  *)
(* made of what was read before it; the server may stop in between.  Whom  *)
(* a notice is for is decided when it is read, and is left out here.       *)
(***************************************************************************)

CONSTANTS Authors,      \* requests under way
          Notices,
          Texts,        \* what a notice can say
          NoNotice, NoText

ASSUME AnnouncementAssumption == NoNotice \notin Notices /\ NoText \notin Texts

VARIABLES notice,    \* notice[a]: a row of announcements
          mailed,    \* mailed[a]: what its mails said, one entry for each round of them
          author,    \* author[p]: what request p has read
          rewritten  \* ghost: notices written by a request that had read them before another wrote

noticeVars == <<notice, mailed, author, rewritten>>

-----------------------------------------------------------------------------
NoticeRows == [text : Texts \cup {NoText}, published : BOOLEAN, deleted : BOOLEAN,
               emailed : BOOLEAN]
NotDrafted == [text |-> NoText, published |-> FALSE, deleted |-> FALSE, emailed |-> FALSE]
AtRest == [pc |-> "rest", of |-> NoNotice, read |-> NoText, text |-> NoText, stale |-> FALSE]

Drafted(a) == notice[a].text # NoText /\ ~notice[a].deleted

AnnouncementInit ==
    /\ notice = [a \in Notices |-> NotDrafted]
    /\ mailed = [a \in Notices |-> <<>>]
    /\ author = [p \in Authors |-> AtRest]
    /\ rewritten = {}

ReadNotice(p, pc, a, text) ==
    /\ author[p].pc = "rest"
    /\ author' = [author EXCEPT ![p] = [pc |-> pc, of |-> a, read |-> notice[a].text,
                                        text |-> text, stale |-> FALSE]]
    /\ UNCHANGED <<notice, mailed, rewritten>>

\* p has written its notice and goes on as r; others who have read it, and have
\* still to write, are stale.
Wrote(p, r) ==
    LET a == author[p].of IN
    /\ author' = [q \in Authors |->
                     IF q = p THEN r
                     ELSE IF author[q].of = a /\ author[q].pc # "mail"
                     THEN [author[q] EXCEPT !.stale = TRUE] ELSE author[q]]
    /\ rewritten' = rewritten \cup {x \in {a} : author[p].stale}

-----------------------------------------------------------------------------
CreateAnnouncement(a) ==
    /\ notice[a] = NotDrafted
    /\ \E text \in Texts : notice' = [notice EXCEPT ![a].text = text]
    /\ UNCHANGED <<mailed, author, rewritten>>

\* Mutant of StillDraft: what has gone out can be edited, and sent again.
StillThere(a) == Drafted(a)

StillDraft(a) == Drafted(a) /\ ~notice[a].published

UpdateAnnouncement(p, a) ==
    StillDraft(a) /\ \E text \in Texts : ReadNotice(p, "update", a, text)

WriteText(p) ==
    LET r == author[p] IN
    /\ r.pc = "update"
    /\ notice' = [notice EXCEPT ![r.of].text = r.text]
    /\ Wrote(p, AtRest)
    /\ UNCHANGED mailed

PublishAnnouncement(p, a) == StillDraft(a) /\ ReadNotice(p, "publish", a, NoText)

\* send_email decides whether the request ends here.
MarkPublished(p) ==
    LET r == author[p] IN
    /\ r.pc = "publish"
    /\ notice' = [notice EXCEPT ![r.of].published = TRUE]
    /\ \E sendEmail \in BOOLEAN :
          Wrote(p, IF sendEmail THEN [r EXCEPT !.pc = "mail"] ELSE AtRest)
    /\ UNCHANGED mailed

\* emailed_count is written when every recipient has been tried.
MailAdmins(p) ==
    LET r == author[p] IN
    /\ r.pc = "mail"
    /\ mailed' = [mailed EXCEPT ![r.of] = Append(@, r.read)]
    /\ \/ notice' = [notice EXCEPT ![r.of].emailed = TRUE]
       \/ UNCHANGED notice   \* the server stops before it gets there
    /\ author' = [author EXCEPT ![p] = AtRest]
    /\ UNCHANGED rewritten

\* The server stops: what was not written by then is not.
Interrupted(p) ==
    /\ author[p].pc # "rest"
    /\ author' = [author EXCEPT ![p] = AtRest]
    /\ UNCHANGED <<notice, mailed, rewritten>>

DeleteAnnouncement(a) ==
    /\ Drafted(a)
    /\ notice' = [notice EXCEPT ![a].deleted = TRUE]
    /\ UNCHANGED <<mailed, author, rewritten>>

AnnouncementNext ==
    \/ \E a \in Notices : CreateAnnouncement(a) \/ DeleteAnnouncement(a)
    \/ \E p \in Authors, a \in Notices : UpdateAnnouncement(p, a) \/ PublishAnnouncement(p, a)
    \/ \E p \in Authors : WriteText(p) \/ MarkPublished(p) \/ MailAdmins(p) \/ Interrupted(p)

AnnouncementSpec == AnnouncementInit /\ [][AnnouncementNext]_noticeVars

-----------------------------------------------------------------------------
AnnouncementTypeOK ==
    /\ notice \in [Notices -> NoticeRows]
    /\ mailed \in [Notices -> Seq(Texts)]
    /\ rewritten \subseteq Notices
    /\ author \in [Authors -> [pc : {"rest", "update", "publish", "mail"},
                               of : Notices \cup {NoNotice}, read : Texts \cup {NoText},
                               text : Texts \cup {NoText}, stale : BOOLEAN]]

(***************************************************************************)
(* Once out, a notice has one version: it was mailed at most once, and the *)
(* mail said what the bell says ("a rewrite would leave two versions"),    *)
(* unless publishing it overlapped another publication or an edit.         *)
(***************************************************************************)
OneVersionUnlessRaced ==
    \A a \in Notices \ rewritten :
        /\ Len(mailed[a]) <= 1
        /\ \A n \in DOMAIN mailed[a] : mailed[a][n] = notice[a].text
=============================================================================
