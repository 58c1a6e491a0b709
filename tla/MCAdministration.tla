-------------------------- MODULE MCAdministration --------------------------
(***************************************************************************)
(* What administrators and owners do to accounts and to the public side of *)
(* a profile.  The two share no row that the other's steps read, so each   *)
(* initial situation wakes one of them.                                    *)
(*                                                                         *)
(* Directory: three rows: an administrator, a further account in any       *)
(* condition, and one that does not exist yet.  Each behaviour draws its   *)
(* operations from one menu, so that every pair that shares a lock or a    *)
(* row meets.  Media: one account, two processes, up to three requests.    *)
(***************************************************************************)
EXTENDS AccountDirectory, TLC

CONSTANTS
    p1, p2, u1, u2, u3, s1, s2, s3, f1, t1, t2,
    None, MediaCalls, c1, c2, c3, Instances, First, CacheMax

VARIABLES
    part,   \* which of the two is awake
    acct, profile, store, vetted, badge, cache, lane, visit, purging, turns, told, excused

-----------------------------------------------------------------------------
Root == [Absent EXCEPT !.st = "on_sast", !.role = "admin", !.sid = s1, !.mail = s1]
Second(r) == [Absent EXCEPT !.role = r, !.sid = s2, !.mail = s2]
Seconds == {[Second("admin") EXCEPT !.st = "on_sast"]}
             \union {[Second(r) EXCEPT !.st = "njupter"] : r \in Roles \ {"admin"}}
             \union {[Second(r) EXCEPT !.st = "closed", !.due = TRUE] : r \in Roles}
Petitions == {NoRequest, [NoRequest EXCEPT !.st = "pending", !.sid = s3, !.mail = s3],
             [NoRequest EXCEPT !.st = "pending", !.intent = "recover", !.sid = s2, !.mail = s2]}
MCAsked == [f: {"role"}, v: Roles] \union [f: {"sid"}, v: {s2, s3}] \union [f: {"mail"}, v: {s3, f1}]
             \union [f: {"pin"}, v: {"on_sast"}] \union [f: {"auto", "personal"}, v: {NoSid}]
MCDrafts == {[role |-> "member", sid |-> s3, mail |-> s3], [role |-> "admin", sid |-> s3, mail |-> f1],
             [role |-> "member", sid |-> s2, mail |-> s2], [role |-> "member", sid |-> s1, mail |-> s3]}

\* A start for every row of Rows, ticket of Asks, with n operations of the menu.
From(ops, rows, asks, n) ==
    {[row |-> (u1 :> Root @@ u2 :> r @@ u3 :> Absent), ticket |-> (t1 :> q @@ t2 :> NoRequest),
      menu |-> ops, left |-> n] : r \in rows, q \in asks}
Open == {r \in Seconds : r.st # "closed"}

\* The directory at rest.
Quiet == From({}, {[Second("admin") EXCEPT !.st = "on_sast"]}, {NoRequest}, 0)

MCStarts ==
    Quiet \union From({"update", "close"}, Open, {NoRequest}, 2)
      \union From({"update", "restore"}, Seconds, {NoRequest}, 2)
      \union From({"update", "create"}, Open, {NoRequest}, 2)
      \union From({"update", "recompute"}, Open, {NoRequest}, 2)
      \union From({"update", "bind"}, Open, {NoRequest}, 2)
      \union From({"update", "batch"}, Open, {NoRequest}, 2)
      \union From({"batch", "close"}, Open, {NoRequest}, 2)
      \union From({"close", "restore", "purge"}, Seconds, {NoRequest}, 3)
      \union From({"recompute", "close", "restore"}, Seconds, {NoRequest}, 2)
      \union From({"update", "recover", "approve"}, Open, Petitions \ {NoRequest}, 2)
      \union From({"create", "approve", "bind"}, Open, Petitions \ {NoRequest}, 2)
      \union From({"submit", "approve", "recover", "reject"}, Seconds, Petitions, 3)
      \union From({"recover", "close", "purge"}, Seconds, Petitions \ {NoRequest}, 2)

-----------------------------------------------------------------------------
Trio(a, b, c) == c1 :> a @@ c2 :> b @@ c3 :> c
Sharing == [key |-> First, on |-> TRUE]
Paused == [key |-> First, on |-> FALSE]
NoBadge == [key |-> None, on |-> FALSE]

Row(avatar) == [ver |-> First, nick |-> "set", avatar |-> avatar]
Own == Row([base |-> "own", key |-> First])
Foreign == Row([base |-> "other", key |-> First])
Bare == Row([base |-> "none", key |-> None])
NoRow == [Bare EXCEPT !.ver = None, !.nick = "none"]

MediaStart(prof, b, kinds, faults, admin) ==
  [profile |-> prof, badge |-> b, kinds |-> kinds, faults |-> faults, admin |-> admin]

NoMedia == {MediaStart(Bare, NoBadge, Trio("absent", "absent", "absent"), 0, 0)}
SomeMedia ==
  { MediaStart(Own, NoBadge, Trio("upload", "upload", "absent"), 1, 1),
    MediaStart(Foreign, NoBadge, Trio("upload", "upload", "absent"), 0, 2),
    MediaStart(NoRow, NoBadge, Trio("upload", "edit", "enable"), 0, 2),
    MediaStart(NoRow, Sharing, Trio("upload", "blog", "absent"), 1, 2),
    MediaStart(Own, NoBadge, Trio("upload", "absent", "absent"), 1, 2),
    MediaStart(Bare, NoBadge, Trio("enable", "enable", "disable"), 0, 2),
    MediaStart(Bare, Paused, Trio("enable", "enable", "disable"), 0, 2),
    MediaStart(Own, Sharing, Trio("disable", "enable", "blog"), 0, 1),
    MediaStart(Own, Sharing, Trio("blog", "blog", "upload"), 0, 0),
    MediaStart(Own, Sharing, Trio("blog", "github", "clear"), 0, 1),
    MediaStart(Own, Sharing, Trio("upload", "blog", "absent"), 1, 1),
    MediaStart(Own, Sharing, Trio("blog", "blog", "absent"), 1, 1) }

Media == INSTANCE ProfileMedia WITH Calls <- MediaCalls, Starts <- NoMedia \cup SomeMedia,
                                    call <- visit, left <- turns



-----------------------------------------------------------------------------
mediaVars == <<acct, profile, store, vetted, badge, cache, lane, visit, purging, turns, told, excused>>

MCInit ==
    /\ part \in {"directory", "media"}
    /\ Init /\ Media!Init
    /\ part = "directory" <=> menu # {}
    /\ part = "media" <=> \E c \in MediaCalls : visit[c].kind # "absent"

MCNext ==
    /\ UNCHANGED part
    /\ \/ part = "directory" /\ Next /\ UNCHANGED mediaVars
       \/ part = "media" /\ Media!Next /\ UNCHANGED vars

MCSpec == MCInit /\ [][MCNext]_<<part, vars, mediaVars>>

Symmetry == Permutations({p1, p2})

-----------------------------------------------------------------------------
(* The properties of the profile's public side, under their own names. *)

\* Avatars are reviewed and there, cards visible and current, embed keys for ever, fill
\* lanes worked in, and first writes merge.
MediaSound == Media!MediaSound

\* Purging an account removes its avatar object (worker/retention.go: "AvatarStore
\* removes COS objects for purged accounts").
PurgeRemovesAvatar == Media!PurgeRemovesAvatar
=============================================================================
