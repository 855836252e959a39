------------------------------ MODULE MCAccess ------------------------------
(***************************************************************************)
(* Instances of Sessions and Invites for TLC.  The two share no variable,  *)
(* so a step of one cannot disturb what is said of the other: a behaviour  *)
(* explores one of them, its part, while the other stays as it began.      *)
(* Requests and links are the same model values in both.                   *)
(***************************************************************************)
EXTENDS Sessions, Invites, TLC

VARIABLE part

accessVars == <<part, sessionVars, inviteVars>>

AccessInit == part \in {"sessions", "invites"} /\ SessionsInit /\ InvitesInit

AccessNext ==
    /\ UNCHANGED part
    /\ \/ part = "sessions" /\ SessionsNext /\ UNCHANGED inviteVars
       \/ part = "invites" /\ InvitesNext /\ UNCHANGED sessionVars

AccessSpec == AccessInit /\ [][AccessNext]_accessVars

\* "Two live links to one person means the older still works after the newer has been spent"
\* (invite.service.ts, and nearly so in the three services beside it): neither password links nor
\* invites do, unless the requests for them overlapped.  Nor does anybody come in by an invite
\* that was revoked, or do two resets wait for each other, but for such an overlap.
LinksHoldUnlessRaced ==
    /\ OneOpenLinkUnlessRaced /\ OneOpenInviteUnlessRaced
    /\ RevokedAdmitsNobodyUnlessRaced /\ ResetsNeverBlockUnlessRaced

Symmetric == Permutations(Clients) \cup Permutations(Links)
=============================================================================
