--------------------------- MODULE OrganizersProofs ---------------------------
(***************************************************************************)
(* Applications, teams and workspaces for every number of people,          *)
(* organizations and requests at a time.  No handler holds a lock, so what *)
(* a request read may have changed by the time it writes: the invariant    *)
(* says what it may still rely on (Sound) when nothing marked it as        *)
(* overtaken (Marked).                                                     *)
(***************************************************************************)
EXTENDS Organizers, TLAPS

-----------------------------------------------------------------------------
(* Types *)

LEMMA RequestTypes ==
    ASSUME NEW q \in Requests
    PROVE  /\ q.op \notin {"idle", "apply"} => q.org \in Organizations
           /\ q.op \notin {"idle", "resubmit", "decide", "seed"} => q.who \in Users
           /\ q.op \in {"invite", "add", "enter", "admit", "promote"} => q.as \in GivenRoles
           /\ q.op = "decide" => q.to \in Decisions
           /\ q.op = "seed" => q.left \subseteq Users
  BY DEF Requests, Idle

LEMMA NewRequests ==
    /\ Idle \in Requests
    /\ \A u \in Users : [op |-> "apply", who |-> u] \in Requests
    /\ \A o \in Organizations : [op |-> "resubmit", org |-> o] \in Requests
    /\ \A o \in Organizations, d \in Decisions :
          [op |-> "decide", org |-> o, to |-> d] \in Requests
    /\ \A u \in Users, o \in Organizations :
          /\ [op |-> "own", who |-> u, org |-> o] \in Requests
          /\ [op |-> "remove", who |-> u, org |-> o, row |-> TRUE] \in Requests
          /\ [op |-> "withdraw", who |-> u, org |-> o] \in Requests
          /\ [op |-> "assign", who |-> u, org |-> o] \in Requests
    /\ \A u \in Users, o \in Organizations, r \in GivenRoles :
          /\ \A op \in {"invite", "add", "enter", "admit"} :
                [op |-> op, who |-> u, org |-> o, as |-> r] \in Requests
          /\ [op |-> "promote", who |-> u, org |-> o, as |-> r, row |-> TRUE] \in Requests
    /\ \A o \in Organizations, S \in SUBSET Users :
          [op |-> "seed", org |-> o, left |-> S] \in Requests
  BY DEF Requests

\* A request that goes on to its next statement.
LEMMA NextRequests ==
    ASSUME NEW q \in Requests
    PROVE  /\ \A op \in {"shut_out", "leave"} :
                 q.op \in {"remove", "shut_out"} =>
                    /\ [q EXCEPT !.op = op] \in Requests
                    /\ [q EXCEPT !.op = op].op = op
                    /\ [q EXCEPT !.op = op].org = q.org
                    /\ [q EXCEPT !.op = op].who = q.who
           /\ \A op \in {"let_in", "accepted"} :
                 q.op \in {"admit", "let_in"} =>
                    /\ [q EXCEPT !.op = op] \in Requests
                    /\ [q EXCEPT !.op = op].op = op
                    /\ [q EXCEPT !.op = op].org = q.org
                    /\ [q EXCEPT !.op = op].who = q.who
           /\ q.op \in {"promote", "remove", "shut_out", "leave"} =>
                 /\ [q EXCEPT !.row = FALSE] \in Requests
                 /\ [q EXCEPT !.row = FALSE].op = q.op
                 /\ [q EXCEPT !.row = FALSE].org = q.org
                 /\ [q EXCEPT !.row = FALSE].who = q.who
  <1>1. CASE q.op \in {"remove", "shut_out", "leave"}
    <2>1. q \in [op : {"remove", "shut_out", "leave"}, who : Users, org : Organizations,
                 row : BOOLEAN]
      BY <1>1 DEF Requests, Idle
    <2>2. \A op \in {"remove", "shut_out", "leave"} :
             /\ [q EXCEPT !.op = op] \in [op : {"remove", "shut_out", "leave"}, who : Users,
                                          org : Organizations, row : BOOLEAN]
             /\ [q EXCEPT !.op = op].op = op
             /\ [q EXCEPT !.op = op].org = q.org
             /\ [q EXCEPT !.op = op].who = q.who
      BY <2>1
    <2>3. /\ [q EXCEPT !.row = FALSE] \in [op : {"remove", "shut_out", "leave"}, who : Users,
                                           org : Organizations, row : BOOLEAN]
          /\ [q EXCEPT !.row = FALSE].op = q.op
          /\ [q EXCEPT !.row = FALSE].org = q.org
          /\ [q EXCEPT !.row = FALSE].who = q.who
      BY <2>1
    <2> QED
      BY <1>1, <2>2, <2>3 DEF Requests
  <1>2. CASE q.op = "promote"
    <2>1. q \in [op : {"promote"}, who : Users, org : Organizations, as : GivenRoles,
                 row : BOOLEAN]
      BY <1>2 DEF Requests, Idle
    <2>2. /\ [q EXCEPT !.row = FALSE] \in [op : {"promote"}, who : Users,
                                           org : Organizations, as : GivenRoles, row : BOOLEAN]
          /\ [q EXCEPT !.row = FALSE].op = q.op
          /\ [q EXCEPT !.row = FALSE].org = q.org
          /\ [q EXCEPT !.row = FALSE].who = q.who
      BY <2>1
    <2> QED
      BY <1>2, <2>2 DEF Requests
  <1>3. CASE q.op \in {"admit", "let_in"}
    <2>1. q \in [op : {"invite", "add", "enter", "admit", "accepted", "let_in"},
                 who : Users, org : Organizations, as : GivenRoles]
      BY <1>3 DEF Requests, Idle
    <2>2. \A op \in {"let_in", "accepted"} :
             /\ [q EXCEPT !.op = op] \in
                  [op : {"invite", "add", "enter", "admit", "accepted", "let_in"},
                   who : Users, org : Organizations, as : GivenRoles]
             /\ [q EXCEPT !.op = op].op = op
             /\ [q EXCEPT !.op = op].org = q.org
             /\ [q EXCEPT !.op = op].who = q.who
      BY <2>1
    <2> QED
      BY <1>3, <2>2 DEF Requests
  <1> QED
    BY <1>1, <1>2, <1>3

LEMMA SeedRequests ==
    ASSUME NEW q \in Requests, q.op = "seed", NEW S \in SUBSET Users
    PROVE  /\ [q EXCEPT !.left = S] \in Requests
           /\ [q EXCEPT !.left = S].op = "seed"
           /\ [q EXCEPT !.left = S].org = q.org
           /\ [q EXCEPT !.left = S].left = S
  <1>1. q \in [op : {"seed"}, org : Organizations, left : SUBSET Users]
    BY DEF Requests, Idle
  <1>2. /\ [q EXCEPT !.left = S] \in [op : {"seed"}, org : Organizations, left : SUBSET Users]
        /\ [q EXCEPT !.left = S].op = "seed"
        /\ [q EXCEPT !.left = S].org = q.org
        /\ [q EXCEPT !.left = S].left = S
    BY <1>1
  <1> QED
    BY <1>2 DEF Requests

LEMMA Marks ==
    ASSUME TypeOK, NEW r, Moves(r)
    PROVE  /\ raced' \subseteq Users /\ late' \subseteq Organizations \X Users
           /\ raced \subseteq raced' /\ late \subseteq late'
           /\ Raced(req') \subseteq raced' /\ Late(req') \subseteq late'
           /\ req' = r
  BY DEF Moves, TypeOK, Raced, Late

LEMMA BeginsTypes ==
    ASSUME TypeOK, NEW h \in Callers, NEW q \in Requests, Begins(h, q)
    PROVE  /\ req' \in [Callers -> Requests] /\ calls' \in 0 .. MaxCalls
           /\ raced' \subseteq Users /\ late' \subseteq Organizations \X Users
           /\ raced \subseteq raced' /\ late \subseteq late'
           /\ Raced(req') \subseteq raced' /\ Late(req') \subseteq late'
           /\ req'[h] = q /\ \A g \in Callers \ {h} : req'[g] = req[g]
  <1>1. Moves([req EXCEPT ![h] = q]) /\ calls' \in 0 .. MaxCalls
    BY OrganizersAssumption DEF Begins, TypeOK
  <1>2. req \in [Callers -> Requests]
    BY DEF TypeOK
  <1>3. req' = [req EXCEPT ![h] = q]
    BY <1>1 DEF Moves
  <1>4. /\ raced' \subseteq Users /\ late' \subseteq Organizations \X Users
        /\ raced \subseteq raced' /\ late \subseteq late'
        /\ Raced(req') \subseteq raced' /\ Late(req') \subseteq late'
    BY <1>1, Marks
  <1> QED
    BY <1>1, <1>2, <1>3, <1>4

LEMMA ContinuesTypes ==
    ASSUME TypeOK, NEW h \in Callers, NEW q \in Requests, Continues(h, q)
    PROVE  /\ req' \in [Callers -> Requests] /\ calls' \in 0 .. MaxCalls
           /\ raced' \subseteq Users /\ late' \subseteq Organizations \X Users
           /\ raced \subseteq raced' /\ late \subseteq late'
           /\ Raced(req') \subseteq raced' /\ Late(req') \subseteq late'
           /\ req'[h] = q /\ \A g \in Callers \ {h} : req'[g] = req[g]
  <1>1. Moves([req EXCEPT ![h] = q]) /\ calls' \in 0 .. MaxCalls
    BY DEF Continues, TypeOK
  <1>2. req \in [Callers -> Requests]
    BY DEF TypeOK
  <1>3. req' = [req EXCEPT ![h] = q]
    BY <1>1 DEF Moves
  <1>4. /\ raced' \subseteq Users /\ late' \subseteq Organizations \X Users
        /\ raced \subseteq raced' /\ late \subseteq late'
        /\ Raced(req') \subseteq raced' /\ Late(req') \subseteq late'
    BY <1>1, Marks
  <1> QED
    BY <1>1, <1>2, <1>3, <1>4

-----------------------------------------------------------------------------
(* The invariant: what a request under way still knows *)

\* It names an organization that was founded; the owner-to-be is the founder.
Placed(q) ==
    /\ q.op \notin {"idle", "apply"} => approval[q.org] # "none"
    /\ q.op = "own" => founder[q.org] = q.who

\* Who applies owns nothing that counts, but for what is being applied for.
AppliesAlone(q) ==
    \A u \in Users \ raced : Applying(q, u) =>
        \A o \in Organizations : role[o][u] = "owner" =>
            o \in barred \/ (q.op = "own" /\ o = q.org)

\* Who joins somebody else's organization is in no other one of somebody else.
JoinsAlone(q) ==
    \A u \in Users \ raced : Joining(q, u) /\ founder[q.org] # u =>
        \A p \in Organizations \ {q.org} : role[p][u] = "none" \/ founder[p] = u

\* Who is about to be given a task or a row of the workspace is on the team.
UsesMembers(q) ==
    \A o \in Organizations, u \in Users : Using(q, o, u) /\ q.op # "admit" /\ Exists(o) =>
        role[o][u] # "none" \/ <<o, u>> \in late

\* Who is being removed is named by no task, and in the end has no row.
ClearsAway(q) ==
    \A o \in Organizations, u \in Users : Removing(q, o, u) =>
        /\ u \notin tasked[o] \/ <<o, u>> \in late
        /\ q.op = "leave" => u \notin access[o] \/ <<o, u>> \in late

Sound(q) ==
    Placed(q) /\ AppliesAlone(q) /\ JoinsAlone(q) /\ UsesMembers(q) /\ ClearsAway(q)

SoundRequests == {q \in Requests : Sound(q)}

\* Requests that disturb each other are marked.
Marked == Raced(req) \subseteq raced /\ Late(req) \subseteq late

\* Nothing belongs to an organization before it is founded, and nobody is on a
\* team that is not there (yet, or any more).
Unfounded ==
    \A o \in Organizations :
        /\ approval[o] = "none" => access[o] = {} /\ tasked[o] = {}
        /\ ~Exists(o) => \A u \in Users : role[o][u] = "none"

BarredMarked ==
    \A o \in Organizations : approval[o] \in {"suspended", "revoked"} => o \in barred

TeamsSound ==
    /\ Unfounded /\ BarredMarked
    /\ OneApplication /\ JoinsOneOrganization /\ TasksNameMembers /\ NoAccessLeftBehind

IInv ==
    /\ TypeOK /\ Marked /\ TeamsSound
    /\ \A h \in Callers : req[h] \in SoundRequests

-----------------------------------------------------------------------------
(* A step, seen from the request that takes it and from the others *)

\* Handler h goes on with the request q, whatever overlaps is marked.
Replaces(h, q) ==
    /\ req' \in [Callers -> Requests] /\ calls' \in 0 .. MaxCalls
    /\ raced' \subseteq Users /\ late' \subseteq Organizations \X Users
    /\ raced \subseteq raced' /\ late \subseteq late'
    /\ Raced(req') \subseteq raced' /\ Late(req') \subseteq late'
    /\ req'[h] = q /\ \A g \in Callers \ {h} : req'[g] = req[g]

LEMMA BeginsReplaces ==
    ASSUME TypeOK, NEW h \in Callers, NEW q \in Requests, Begins(h, q)
    PROVE  Replaces(h, q)
  BY BeginsTypes DEF Replaces

LEMMA ContinuesReplaces ==
    ASSUME TypeOK, NEW h \in Callers, NEW q \in Requests, Continues(h, q)
    PROVE  Replaces(h, q)
  BY ContinuesTypes DEF Replaces

\* What the other requests know stays true.
OthersSound(h) == \A g \in Callers \ {h} : req[g] \in SoundRequests'

Grows == raced \subseteq raced' /\ late \subseteq late'

DataTypes ==
    /\ approval \in [Organizations -> Existing \cup {"none", "deleted"}]
    /\ founder \in [Organizations -> Users \cup {NoUser}]
    /\ role \in [Organizations -> [Users -> GivenRoles \cup {"owner", "none"}]]
    /\ invited \in [Organizations -> [Users ->
           [is : {"none", "pending", "lapsed", "expired", "accepted", "revoked"},
            as : GivenRoles]]]
    /\ verified \subseteq Users
    /\ open \subseteq Organizations
    /\ access \in [Organizations -> SUBSET Users]
    /\ tasked \in [Organizations -> SUBSET Users]
    /\ barred \subseteq Organizations

LEMMA Closes ==
    ASSUME NEW h \in Callers, NEW q \in Requests, Replaces(h, q), DataTypes', TeamsSound',
           q \in SoundRequests', OthersSound(h)
    PROVE  IInv'
  <1>1. TypeOK'
    BY DEF Replaces, DataTypes, TypeOK
  <1>2. Marked'
    BY DEF Replaces, Marked
  <1>3. \A g \in Callers : req'[g] \in SoundRequests'
    BY DEF Replaces, OthersSound
  <1> QED
    BY <1>1, <1>2, <1>3 DEF IInv

LEMMA IdleSound == Idle \in SoundRequests
  BY NewRequests DEF SoundRequests, Sound, Placed, AppliesAlone, JoinsAlone, UsesMembers,
     ClearsAway, Idle, Applying, Joining, Using, Removing

-----------------------------------------------------------------------------
(* What the writes leave true *)

Data == <<approval, founder, role, access, tasked, barred>>

\* Nothing these properties speak of is written.
LEMMA Frame ==
    ASSUME IInv, Grows, UNCHANGED Data, NEW h \in Callers
    PROVE  TeamsSound' /\ OthersSound(h) /\ SoundRequests \subseteq SoundRequests'
  <1>1. TeamsSound'
    BY DEF IInv, TeamsSound, Data, Grows, Unfounded, BarredMarked, OneApplication, Owned,
       JoinsOneOrganization, TasksNameMembers, NoAccessLeftBehind, Exists
  <1>2. ASSUME NEW q \in SoundRequests
        PROVE  q \in SoundRequests'
    BY DEF SoundRequests, Sound, Data, Grows, Placed, AppliesAlone, JoinsAlone, UsesMembers,
       ClearsAway, Exists
  <1> QED
    BY <1>1, <1>2 DEF OthersSound, IInv

\* An organization that is there gets another status.
LEMMA ApprovalSet ==
    ASSUME IInv, Grows, UNCHANGED <<founder, role, access, tasked>>,
           NEW o \in Organizations, NEW to \in Existing, Exists(o),
           approval' = [approval EXCEPT ![o] = to],
           barred \subseteq barred', to \in {"suspended", "revoked"} => o \in barred',
           NEW h \in Callers
    PROVE  TeamsSound' /\ OthersSound(h)
  <1>1. approval \in [Organizations -> Existing \cup {"none", "deleted"}]
    BY DEF IInv, TypeOK
  <1>2. \A p \in Organizations : /\ Exists(p)' <=> Exists(p)
                                 /\ approval'[p] = "none" => approval[p] = "none"
                                 /\ p # o => approval'[p] = approval[p]
    BY <1>1 DEF Exists, Existing
  <1>3. approval'[o] = to
    BY <1>1
  <1>4. Unfounded' /\ BarredMarked'
    BY <1>2, <1>3 DEF IInv, TeamsSound, Unfounded, BarredMarked, Exists
  <1>5. OneApplication' /\ JoinsOneOrganization'
    BY DEF IInv, TeamsSound, OneApplication, JoinsOneOrganization, Owned, Grows
  <1>6. TasksNameMembers' /\ NoAccessLeftBehind'
    BY <1>2 DEF IInv, TeamsSound, TasksNameMembers, NoAccessLeftBehind, Grows
  <1>7. ASSUME NEW q \in SoundRequests
        PROVE  q \in SoundRequests'
    <2>1. Placed(q)'
      BY <1>2, RequestTypes DEF SoundRequests, Sound, Placed
    <2>2. AppliesAlone(q)' /\ JoinsAlone(q)'
      BY DEF SoundRequests, Sound, AppliesAlone, JoinsAlone, Grows
    <2>3. UsesMembers(q)' /\ ClearsAway(q)'
      BY <1>2 DEF SoundRequests, Sound, UsesMembers, ClearsAway, Grows
    <2> QED
      BY <2>1, <2>2, <2>3 DEF SoundRequests, Sound
  <1> QED
    BY <1>4, <1>5, <1>6, <1>7 DEF TeamsSound, OthersSound, IInv

\* A new organization has nobody and nothing yet, and no request names it.
LEMMA Founded ==
    ASSUME IInv, Grows, UNCHANGED <<role, access, tasked, barred>>,
           NEW o \in Organizations, NEW w \in Users, approval[o] = "none",
           approval' = [approval EXCEPT ![o] = "pending"],
           founder' = [founder EXCEPT ![o] = w],
           NEW h \in Callers
    PROVE  TeamsSound' /\ OthersSound(h)
  <1>1. /\ approval \in [Organizations -> Existing \cup {"none", "deleted"}]
        /\ founder \in [Organizations -> Users \cup {NoUser}]
    BY DEF IInv, TypeOK
  <1>2. /\ \A p \in Organizations \ {o} : /\ approval'[p] = approval[p]
                                          /\ founder'[p] = founder[p]
                                          /\ Exists(p)' <=> Exists(p)
        /\ approval'[o] = "pending" /\ Exists(o)' /\ ~Exists(o)
    BY <1>1 DEF Exists, Existing
  <1>3. access[o] = {} /\ tasked[o] = {} /\ \A u \in Users : role[o][u] = "none"
    BY <1>2 DEF IInv, TeamsSound, Unfounded
  <1>4. Unfounded' /\ BarredMarked'
    BY <1>2 DEF IInv, TeamsSound, Unfounded, BarredMarked
  <1>5. OneApplication' /\ JoinsOneOrganization'
    BY <1>2, <1>3 DEF IInv, TeamsSound, OneApplication, JoinsOneOrganization, Owned, Grows
  <1>6. TasksNameMembers' /\ NoAccessLeftBehind'
    BY <1>2, <1>3 DEF IInv, TeamsSound, TasksNameMembers, NoAccessLeftBehind, Grows
  <1>7. ASSUME NEW q \in SoundRequests
        PROVE  q \in SoundRequests'
    <2>0. q \in Requests /\ Sound(q)
      BY DEF SoundRequests
    <2>1. /\ q.op \notin {"idle", "apply"} => q.org \in Organizations \ {o}
      BY <2>0, RequestTypes DEF Sound, Placed
    <2>2. Placed(q)'
      BY <1>2, <2>0, <2>1 DEF Sound, Placed
    <2>3. AppliesAlone(q)' /\ JoinsAlone(q)'
      BY <1>2, <1>3, <2>0, <2>1 DEF Sound, AppliesAlone, JoinsAlone, Grows, Joining
    <2>4. UsesMembers(q)' /\ ClearsAway(q)'
      BY <1>2, <2>0, <2>1 DEF Sound, UsesMembers, ClearsAway, Grows, Using
    <2> QED
      BY <2>0, <2>2, <2>3, <2>4 DEF SoundRequests, Sound
  <1> QED
    BY <1>4, <1>5, <1>6, <1>7 DEF TeamsSound, OthersSound, IInv

\* An organization that goes takes its team along.
LEMMA Disbanded ==
    ASSUME IInv, Grows, NEW o \in Organizations, Disbands(o), NEW h \in Callers
    PROVE  TeamsSound' /\ OthersSound(h)
  <1>1. /\ approval \in [Organizations -> Existing \cup {"none", "deleted"}]
        /\ role \in [Organizations -> [Users -> GivenRoles \cup {"owner", "none"}]]
        /\ approval' = [approval EXCEPT ![o] = "deleted"]
        /\ role' = [role EXCEPT ![o] = [u \in Users |-> "none"]]
        /\ UNCHANGED <<founder, access, tasked, barred>>
    BY DEF IInv, TypeOK, Disbands, deskVars
  <1>2. /\ \A p \in Organizations \ {o} : /\ approval'[p] = approval[p]
                                          /\ Exists(p)' <=> Exists(p)
                                          /\ \A u \in Users : role'[p][u] = role[p][u]
        /\ approval'[o] = "deleted" /\ ~Exists(o)' /\ \A u \in Users : role'[o][u] = "none"
    BY <1>1 DEF Exists, Existing
  <1>4. Unfounded' /\ BarredMarked'
    BY <1>1, <1>2 DEF IInv, TeamsSound, Unfounded, BarredMarked
  <1>5. OneApplication' /\ JoinsOneOrganization'
    BY <1>1, <1>2 DEF IInv, TeamsSound, OneApplication, JoinsOneOrganization, Owned, Grows
  <1>6. TasksNameMembers' /\ NoAccessLeftBehind'
    <2>1. \A p \in Organizations : access'[p] = access[p] /\ tasked'[p] = tasked[p]
                                    /\ access[p] \subseteq Users /\ tasked[p] \subseteq Users
      BY <1>1 DEF IInv, TypeOK
    <2> QED
      BY <1>2, <2>1 DEF IInv, TeamsSound, TasksNameMembers, NoAccessLeftBehind, Grows
  <1>7. ASSUME NEW q \in SoundRequests
        PROVE  q \in SoundRequests'
    <2>0. q \in Requests /\ Sound(q)
      BY DEF SoundRequests
    <2>2. Placed(q)'
      BY <1>1, <1>2, <2>0, RequestTypes DEF Sound, Placed
    <2>3. AppliesAlone(q)' /\ JoinsAlone(q)'
      BY <1>1, <1>2, <2>0 DEF Sound, AppliesAlone, JoinsAlone, Grows
    <2>4. UsesMembers(q)' /\ ClearsAway(q)'
      BY <1>1, <1>2, <2>0 DEF Sound, UsesMembers, ClearsAway, Grows
    <2> QED
      BY <2>0, <2>2, <2>3, <2>4 DEF SoundRequests, Sound
  <1> QED
    BY <1>4, <1>5, <1>6, <1>7 DEF TeamsSound, OthersSound, IInv

\* One person's place in one organization.
RoleSet(o, u, v) ==
    /\ role'[o][u] = v
    /\ \A p \in Organizations, w \in Users : p # o \/ w # u => role'[p][w] = role[p][w]
    /\ UNCHANGED <<approval, founder, access, tasked, barred>>

LEMMA RoleIsSet ==
    ASSUME TypeOK, NEW o \in Organizations, NEW u \in Users, NEW v,
           role' = [role EXCEPT ![o][u] = v],
           UNCHANGED <<approval, founder, access, tasked, barred>>
    PROVE  RoleSet(o, u, v)
  BY DEF TypeOK, RoleSet

\* Whoever joins, or stays with another role, is in no other organization of
\* somebody else; those who join elsewhere meanwhile are marked.
LEMMA RoleGiven ==
    ASSUME IInv, Grows, NEW h \in Callers, NEW o \in Organizations, NEW u \in Users,
           NEW v \in GivenRoles, RoleSet(o, u, v), Exists(o),
           role[o][u] # "none" \/ (Joining(req[h], u) /\ req[h].org = o)
    PROVE  TeamsSound' /\ OthersSound(h)
  <1>1. v # "owner" /\ v # "none"
    BY DEF GivenRoles
  <1>2. \A p \in Organizations : Exists(p)' <=> Exists(p)
    BY DEF RoleSet, Exists
  <1>3. \A p \in Organizations, w \in Users :
           /\ role'[p][w] = "owner" => role[p][w] = "owner"
           /\ role[p][w] # "none" => role'[p][w] # "none"
    BY <1>1 DEF RoleSet
  <1>4. Unfounded' /\ BarredMarked'
    BY <1>2 DEF IInv, TeamsSound, Unfounded, BarredMarked, RoleSet
  <1>5. OneApplication'
    BY <1>3 DEF IInv, TeamsSound, OneApplication, Owned, Grows, RoleSet
  <1>6. JoinsOneOrganization'
    <2>1. ASSUME u \notin raced, founder[o] # u, NEW p \in Organizations \ {o},
                 founder[p] # u
          PROVE  role[p][u] = "none"
      BY <2>1 DEF IInv, TeamsSound, JoinsOneOrganization, SoundRequests, Sound, JoinsAlone
    <2> QED
      BY <2>1 DEF IInv, TeamsSound, JoinsOneOrganization, Grows, RoleSet
  <1>7. TasksNameMembers' /\ NoAccessLeftBehind'
    <2>1. \A p \in Organizations : access'[p] = access[p] /\ tasked'[p] = tasked[p]
                                    /\ access[p] \subseteq Users /\ tasked[p] \subseteq Users
      BY DEF IInv, TypeOK, RoleSet
    <2> QED
      BY <1>2, <1>3, <2>1 DEF IInv, TeamsSound, TasksNameMembers, NoAccessLeftBehind, Grows
  <1>8. ASSUME NEW g \in Callers \ {h}, NEW q \in SoundRequests, q = req[g]
        PROVE  q \in SoundRequests'
    <2>0. q \in Requests /\ Sound(q)
      BY DEF SoundRequests
    <2>1. Placed(q)'
      BY <2>0 DEF Sound, Placed, RoleSet
    <2>2. AppliesAlone(q)'
      BY <2>0, <1>3 DEF Sound, AppliesAlone, Grows, RoleSet
    <2>3. JoinsAlone(q)'
      <3> SUFFICES ASSUME NEW w \in Users \ raced', Joining(q, w), founder[q.org] # w,
                          NEW p \in Organizations \ {q.org}
                   PROVE  role'[p][w] = "none" \/ founder[p] = w
        BY DEF JoinsAlone, RoleSet, Joining
      <3>1. role[p][w] = "none" \/ founder[p] = w
        BY <2>0 DEF Sound, JoinsAlone, Grows
      <3>2. CASE p # o \/ w # u
        BY <3>1, <3>2 DEF RoleSet
      <3>3. CASE p = o /\ w = u /\ role[o][u] # "none"
        BY <3>1, <3>3
      <3>4. CASE w = u /\ Joining(req[h], u)
        BY <3>4, <1>8 DEF IInv, Marked, Raced, Grows
      <3> QED
        BY <3>2, <3>3, <3>4
    <2>4. UsesMembers(q)' /\ ClearsAway(q)'
      BY <1>2, <1>3, <2>0 DEF Sound, UsesMembers, ClearsAway, Grows, RoleSet
    <2> QED
      BY <2>0, <2>1, <2>2, <2>3, <2>4 DEF SoundRequests, Sound
  <1> QED
    BY <1>4, <1>5, <1>6, <1>7, <1>8 DEF TeamsSound, OthersSound, IInv

\* The founder becomes the owner: whatever else is owned counts no more, or the
\* applications were read together.
LEMMA RoleOwned ==
    ASSUME IInv, Grows, NEW h \in Callers, NEW o \in Organizations, NEW u \in Users,
           RoleSet(o, u, "owner"), Exists(o),
           req[h].op = "own", req[h].who = u, req[h].org = o
    PROVE  TeamsSound' /\ OthersSound(h)
  <1>1. req[h] \in SoundRequests /\ Applying(req[h], u)
    BY DEF IInv, Applying
  <1>2. founder[o] = u /\ \A p \in Organizations : Exists(p)' <=> Exists(p)
    BY <1>1 DEF RoleSet, Exists, SoundRequests, Sound, Placed
  <1>3. \A p \in Organizations, w \in Users :
           /\ role'[p][w] = "owner" => role[p][w] = "owner" \/ (p = o /\ w = u)
           /\ role[p][w] # "none" => role'[p][w] # "none"
           /\ role[p][w] = "none" => role'[p][w] = "none" \/ founder[p] = w
    BY <1>2 DEF RoleSet
  <1>4. Unfounded' /\ BarredMarked'
    BY <1>2 DEF IInv, TeamsSound, Unfounded, BarredMarked, RoleSet
  <1>5. OneApplication'
    <2>1. ASSUME u \notin raced, NEW p \in Organizations, role[p][u] = "owner", p # o
          PROVE  p \in barred
      BY <1>1, <2>1 DEF SoundRequests, Sound, AppliesAlone
    <2> QED
      BY <1>3, <2>1 DEF IInv, TeamsSound, OneApplication, Owned, Grows, RoleSet
  <1>6. JoinsOneOrganization'
    BY <1>3 DEF IInv, TeamsSound, JoinsOneOrganization, Grows, RoleSet
  <1>7. TasksNameMembers' /\ NoAccessLeftBehind'
    <2>1. \A p \in Organizations : access'[p] = access[p] /\ tasked'[p] = tasked[p]
                                    /\ access[p] \subseteq Users /\ tasked[p] \subseteq Users
      BY DEF IInv, TypeOK, RoleSet
    <2> QED
      BY <1>2, <1>3, <2>1 DEF IInv, TeamsSound, TasksNameMembers, NoAccessLeftBehind, Grows
  <1>8. ASSUME NEW g \in Callers \ {h}, NEW q \in SoundRequests, q = req[g]
        PROVE  q \in SoundRequests'
    <2>0. q \in Requests /\ Sound(q)
      BY DEF SoundRequests
    <2>1. Placed(q)'
      BY <2>0 DEF Sound, Placed, RoleSet
    <2>2. AppliesAlone(q)'
      <3>1. Applying(q, u) => u \in raced
        BY <1>1, <1>8 DEF IInv, Marked, Raced
      <3> QED
        BY <2>0, <1>3, <3>1 DEF Sound, AppliesAlone, Grows, RoleSet
    <2>3. JoinsAlone(q)'
      BY <2>0, <1>3 DEF Sound, JoinsAlone, Grows, RoleSet
    <2>4. UsesMembers(q)' /\ ClearsAway(q)'
      BY <1>2, <1>3, <2>0 DEF Sound, UsesMembers, ClearsAway, Grows, RoleSet
    <2> QED
      BY <2>0, <2>1, <2>2, <2>3, <2>4 DEF SoundRequests, Sound
  <1> QED
    BY <1>4, <1>5, <1>6, <1>7, <1>8 DEF TeamsSound, OthersSound, IInv

\* Who leaves has been cleared away, but for what was under way, which is marked.
LEMMA RoleLost ==
    ASSUME IInv, Grows, NEW h \in Callers, NEW o \in Organizations, NEW u \in Users,
           RoleSet(o, u, "none"),
           req[h].op = "leave", req[h].who = u, req[h].org = o
    PROVE  TeamsSound' /\ OthersSound(h)
  <1>1. req[h] \in SoundRequests /\ Removing(req[h], o, u)
    BY DEF IInv, Removing
  <1>2. \A p \in Organizations : Exists(p)' <=> Exists(p)
    BY DEF RoleSet, Exists
  <1>3. \A p \in Organizations, w \in Users :
           role'[p][w] = role[p][w] \/ (role'[p][w] = "none" /\ p = o /\ w = u)
    BY DEF RoleSet
  <1>4. Unfounded' /\ BarredMarked'
    BY <1>2, <1>3 DEF IInv, TeamsSound, Unfounded, BarredMarked, RoleSet
  <1>5. OneApplication' /\ JoinsOneOrganization'
    BY <1>3 DEF IInv, TeamsSound, OneApplication, JoinsOneOrganization, Owned, Grows, RoleSet
  <1>6. /\ u \notin tasked[o] \/ <<o, u>> \in late
        /\ u \notin access[o] \/ <<o, u>> \in late
    BY <1>1 DEF SoundRequests, Sound, ClearsAway
  <1>7. TasksNameMembers' /\ NoAccessLeftBehind'
    <2>1. \A p \in Organizations : access'[p] = access[p] /\ tasked'[p] = tasked[p]
                                    /\ access[p] \subseteq Users /\ tasked[p] \subseteq Users
      BY DEF IInv, TypeOK, RoleSet
    <2> QED
      BY <1>2, <1>3, <1>6, <2>1
      DEF IInv, TeamsSound, TasksNameMembers, NoAccessLeftBehind, Grows
  <1>8. ASSUME NEW g \in Callers \ {h}, NEW q \in SoundRequests, q = req[g]
        PROVE  q \in SoundRequests'
    <2>0. q \in Requests /\ Sound(q)
      BY DEF SoundRequests
    <2>1. Placed(q)'
      BY <2>0 DEF Sound, Placed, RoleSet
    <2>2. AppliesAlone(q)' /\ JoinsAlone(q)'
      BY <2>0, <1>3 DEF Sound, AppliesAlone, JoinsAlone, Grows, RoleSet
    <2>3. UsesMembers(q)'
      <3>1. Using(q, o, u) => <<o, u>> \in late
        BY <1>1, <1>8 DEF IInv, Marked, Late
      <3> QED
        BY <1>2, <1>3, <2>0, <3>1 DEF Sound, UsesMembers, Grows
    <2>4. ClearsAway(q)'
      BY <2>0 DEF Sound, ClearsAway, Grows, RoleSet
    <2> QED
      BY <2>0, <2>1, <2>2, <2>3, <2>4 DEF SoundRequests, Sound
  <1> QED
    BY <1>4, <1>5, <1>7, <1>8 DEF TeamsSound, OthersSound, IInv

\* The tasks of one organization lose a name, or name someone a request still
\* means by it.
LEMMA TasksSet ==
    ASSUME IInv, Grows, UNCHANGED <<approval, founder, role, access, barred>>,
           NEW h \in Callers, NEW o \in Organizations, NEW S \in SUBSET Users,
           tasked' = [tasked EXCEPT ![o] = S], approval[o] # "none",
           \A u \in S \ tasked[o] : req[h].op = "assign" /\ Using(req[h], o, u)
    PROVE  TeamsSound' /\ OthersSound(h)
  <1>1. /\ \A p \in Organizations : /\ Exists(p)' <=> Exists(p)
                                    /\ p # o => tasked'[p] = tasked[p]
                                    /\ tasked[p] \subseteq Users
        /\ tasked'[o] = S
    BY DEF IInv, TypeOK, Exists
  <1>2. \A u \in S \ tasked[o] : Exists(o) => role[o][u] # "none" \/ <<o, u>> \in late
    BY DEF IInv, SoundRequests, Sound, UsesMembers
  <1>3. Unfounded' /\ BarredMarked'
    BY <1>1 DEF IInv, TeamsSound, Unfounded, BarredMarked
  <1>4. OneApplication' /\ JoinsOneOrganization' /\ NoAccessLeftBehind'
    BY <1>1 DEF IInv, TeamsSound, OneApplication, JoinsOneOrganization, NoAccessLeftBehind,
       Owned, Grows
  <1>5. TasksNameMembers'
    BY <1>1, <1>2 DEF IInv, TeamsSound, TasksNameMembers, Grows
  <1>6. ASSUME NEW g \in Callers \ {h}, NEW q \in SoundRequests, q = req[g]
        PROVE  q \in SoundRequests'
    <2>0. q \in Requests /\ Sound(q)
      BY DEF SoundRequests
    <2>1. Placed(q)' /\ AppliesAlone(q)' /\ JoinsAlone(q)' /\ UsesMembers(q)'
      BY <1>1, <2>0 DEF Sound, Placed, AppliesAlone, JoinsAlone, UsesMembers, Grows
    <2>2. ClearsAway(q)'
      <3>1. \A u \in S \ tasked[o] : Removing(q, o, u) => <<o, u>> \in late
        BY <1>6 DEF IInv, Marked, Late
      <3> QED
        BY <1>1, <2>0, <3>1 DEF Sound, ClearsAway, Grows
    <2> QED
      BY <2>0, <2>1, <2>2 DEF SoundRequests, Sound
  <1> QED
    BY <1>3, <1>4, <1>5, <1>6 DEF TeamsSound, OthersSound, IInv

\* So with the rows of its workspace.
LEMMA AccessSet ==
    ASSUME IInv, Grows, UNCHANGED <<approval, founder, role, tasked, barred>>,
           NEW h \in Callers, NEW o \in Organizations, NEW S \in SUBSET Users,
           access' = [access EXCEPT ![o] = S], approval[o] # "none",
           \A u \in S \ access[o] : req[h].op \in {"let_in", "seed"} /\ Using(req[h], o, u)
    PROVE  TeamsSound' /\ OthersSound(h)
  <1>1. /\ \A p \in Organizations : /\ Exists(p)' <=> Exists(p)
                                    /\ p # o => access'[p] = access[p]
                                    /\ access[p] \subseteq Users
        /\ access'[o] = S
    BY DEF IInv, TypeOK, Exists
  <1>2. \A u \in S \ access[o] : Exists(o) => role[o][u] # "none" \/ <<o, u>> \in late
    BY DEF IInv, SoundRequests, Sound, UsesMembers
  <1>3. Unfounded' /\ BarredMarked'
    BY <1>1 DEF IInv, TeamsSound, Unfounded, BarredMarked
  <1>4. OneApplication' /\ JoinsOneOrganization' /\ TasksNameMembers'
    BY <1>1 DEF IInv, TeamsSound, OneApplication, JoinsOneOrganization, TasksNameMembers,
       Owned, Grows
  <1>5. NoAccessLeftBehind'
    BY <1>1, <1>2 DEF IInv, TeamsSound, NoAccessLeftBehind, Grows
  <1>6. ASSUME NEW g \in Callers \ {h}, NEW q \in SoundRequests, q = req[g]
        PROVE  q \in SoundRequests'
    <2>0. q \in Requests /\ Sound(q)
      BY DEF SoundRequests
    <2>1. Placed(q)' /\ AppliesAlone(q)' /\ JoinsAlone(q)' /\ UsesMembers(q)'
      BY <1>1, <2>0 DEF Sound, Placed, AppliesAlone, JoinsAlone, UsesMembers, Grows
    <2>2. ClearsAway(q)'
      <3>1. \A u \in S \ access[o] : Removing(q, o, u) => <<o, u>> \in late
        BY <1>6 DEF IInv, Marked, Late
      <3> QED
        BY <1>1, <2>0, <3>1 DEF Sound, ClearsAway, Grows
    <2> QED
      BY <2>0, <2>1, <2>2 DEF SoundRequests, Sound
  <1> QED
    BY <1>3, <1>4, <1>5, <1>6 DEF TeamsSound, OthersSound, IInv

-----------------------------------------------------------------------------
(* Requests that begin *)

LEMMA QuietBegin ==
    ASSUME IInv, NEW h \in Callers, NEW q \in SoundRequests, Begins(h, q),
           UNCHANGED Data, DataTypes'
    PROVE  IInv'
  <1>1. q \in Requests /\ TypeOK
    BY DEF IInv, SoundRequests
  <1>2. Replaces(h, q)
    BY <1>1, BeginsReplaces
  <1>3. TeamsSound' /\ OthersSound(h) /\ q \in SoundRequests'
    BY <1>2, Frame DEF Replaces, Grows
  <1> QED
    BY <1>1, <1>2, <1>3, Closes

LEMMA ApplyStep ==
    ASSUME IInv, NEW h \in Callers, NEW u \in Users, Apply(h, u)
    PROVE  IInv'
  <1>1. UNCHANGED Data /\ DataTypes'
    BY DEF IInv, TypeOK, DataTypes, Data, Apply, orgVars, teamVars, deskVars
  <1>2. CASE \E o \in Owned(u) : Begins(h, [op |-> "resubmit", org |-> o]) /\ Counts(o)
    <2>1. PICK o \in Organizations : Begins(h, [op |-> "resubmit", org |-> o]) /\ Counts(o)
      BY <1>2 DEF Owned
    <2> DEFINE q == [op |-> "resubmit", org |-> o]
    <2>2. q \in Requests /\ q.op = "resubmit" /\ q.org = o /\ approval[o] # "none"
      BY <2>1, NewRequests DEF Counts
    <2>3. Begins(h, q)
      BY <2>1
    <2> HIDE DEF q
    <2>4. q \in SoundRequests
      BY <2>2 DEF SoundRequests, Sound, Placed, AppliesAlone, JoinsAlone, UsesMembers,
         ClearsAway, Applying, Joining, Using, Removing
    <2> QED
      BY <1>1, <2>3, <2>4, QuietBegin
  <1>3. CASE {o \in Owned(u) : Counts(o)} = {} /\ Begins(h, [op |-> "apply", who |-> u])
    <2> DEFINE q == [op |-> "apply", who |-> u]
    <2>1. q \in Requests /\ q.op = "apply" /\ q.who = u
      BY NewRequests
    <2>2. Begins(h, q)
      BY <1>3
    <2> HIDE DEF q
    <2>3. ASSUME NEW o \in Organizations, role[o][u] = "owner"
          PROVE  o \in barred
      <3>1. ~Counts(o)
        BY <1>3, <2>3 DEF Owned
      <3>2. Exists(o)
        BY <2>3 DEF IInv, TeamsSound, Unfounded
      <3>3. approval[o] \in {"suspended", "revoked"}
        BY <3>1, <3>2 DEF Exists, Existing, Counts
      <3> QED
        BY <3>3 DEF IInv, TeamsSound, BarredMarked
    <2>4. q \in SoundRequests
      BY <2>1, <2>3 DEF SoundRequests, Sound, Placed, AppliesAlone, JoinsAlone, UsesMembers,
         ClearsAway, Applying, Joining, Using, Removing
    <2> QED
      BY <1>1, <2>2, <2>4, QuietBegin
  <1> QED
    BY <1>2, <1>3 DEF Apply

\* Most requests rely on nothing but that the organization was founded.
LEMMA PlainBegin ==
    ASSUME IInv, NEW h \in Callers, NEW q \in Requests, Begins(h, q), UNCHANGED Data, DataTypes',
           q.op \in {"decide", "invite", "promote", "remove", "withdraw"}, Exists(q.org)
    PROVE  IInv'
  <1>1. q \in SoundRequests
    BY DEF SoundRequests, Sound, Placed, AppliesAlone, JoinsAlone, UsesMembers,
       ClearsAway, Applying, Joining, Using, Removing, Exists, Existing
  <1> QED
    BY <1>1, QuietBegin

\* A join of someone who is in no other organization of somebody else.
LEMMA JoinBegins ==
    ASSUME IInv, NEW h \in Callers, NEW q \in Requests, Begins(h, q), UNCHANGED Data, DataTypes',
           q.op \in {"add", "enter", "admit"}, Exists(q.org),
           Elsewhere(q.who, q.org) = {} \/ role[q.org][q.who] # "none"
    PROVE  IInv'
  <1>0. q.org \in Organizations /\ q.who \in Users
    BY RequestTypes
  <1>1. JoinsAlone(q)
    <2> SUFFICES ASSUME q.who \notin raced, founder[q.org] # q.who,
                        NEW p \in Organizations \ {q.org}
                 PROVE  role[p][q.who] = "none" \/ founder[p] = q.who
      BY DEF JoinsAlone, Joining
    <2>1. CASE Elsewhere(q.who, q.org) = {}
      BY <2>1 DEF Elsewhere
    <2>2. CASE role[q.org][q.who] # "none"
      BY <1>0, <2>2 DEF IInv, TeamsSound, JoinsOneOrganization
    <2> QED
      BY <2>1, <2>2
  <1>2. q \in SoundRequests
    BY <1>1 DEF SoundRequests, Sound, Placed, AppliesAlone, UsesMembers,
       ClearsAway, Applying, Using, Removing, Exists, Existing
  <1> QED
    BY <1>2, QuietBegin

LEMMA TeamBegins ==
    ASSUME IInv, NEW h \in Callers, NEW u \in Users, NEW o \in Organizations,
           NEW r \in GivenRoles,
           \/ \E a \in Users : AddMyTeamMember(h, a, u, o, r)
           \/ AddOrganizerMember(h, u, o, r)
    PROVE  IInv'
  <1>1. UNCHANGED Data /\ DataTypes'
    BY DEF IInv, TypeOK, DataTypes, Data, AddMyTeamMember, AddOrganizerMember,
       orgVars, teamVars, deskVars
  <1>2. Exists(o)
    BY DEF AddMyTeamMember, AddOrganizerMember, Manages, Exists, Existing
  <1>3. PICK op \in {"invite", "add", "enter"} :
           /\ Begins(h, [op |-> op, who |-> u, org |-> o, as |-> r])
           /\ op # "invite" => Elsewhere(u, o) = {}
    BY DEF AddMyTeamMember, AddOrganizerMember
  <1> DEFINE q == [op |-> op, who |-> u, org |-> o, as |-> r]
  <1>4. q \in Requests /\ q.op = op /\ q.who = u /\ q.org = o /\ Begins(h, q)
    BY <1>3, NewRequests
  <1> HIDE DEF q
  <1>5. CASE op = "invite"
    BY <1>1, <1>2, <1>4, <1>5, PlainBegin
  <1>6. CASE op # "invite"
    BY <1>1, <1>2, <1>3, <1>4, <1>6, JoinBegins
  <1> QED
    BY <1>5, <1>6

LEMMA DecideStep ==
    ASSUME IInv, NEW h \in Callers, NEW o \in Organizations, NEW to \in Decisions,
           Decide(h, o, to)
    PROVE  IInv'
  <1>1. UNCHANGED Data /\ DataTypes' /\ Exists(o)
    BY DEF IInv, TypeOK, DataTypes, Data, Decide, orgVars, teamVars, deskVars
  <1> DEFINE q == [op |-> "decide", org |-> o, to |-> to]
  <1>2. q \in Requests /\ q.op = "decide" /\ q.org = o /\ Begins(h, q)
    BY NewRequests DEF Decide
  <1> HIDE DEF q
  <1> QED
    BY <1>1, <1>2, PlainBegin

LEMMA ChangeBegins ==
    ASSUME IInv, NEW h \in Callers, NEW u \in Users, NEW o \in Organizations,
           \/ \E r \in GivenRoles : UpdateMember(h, u, o, r)
           \/ RemoveMember(h, u, o)
           \/ RevokeInvitation(h, u, o)
    PROVE  IInv'
  <1>1. UNCHANGED Data /\ DataTypes' /\ Exists(o)
    BY DEF IInv, TypeOK, DataTypes, Data, UpdateMember, RemoveMember, RevokeInvitation,
       orgVars, teamVars, deskVars
  <1>2. CASE \E r \in GivenRoles : UpdateMember(h, u, o, r)
    <2>1. PICK r \in GivenRoles : UpdateMember(h, u, o, r)
      BY <1>2
    <2> DEFINE q == [op |-> "promote", who |-> u, org |-> o, as |-> r, row |-> TRUE]
    <2>2. q \in Requests /\ q.op = "promote" /\ q.org = o /\ Begins(h, q)
      BY <2>1, NewRequests DEF UpdateMember
    <2> HIDE DEF q
    <2> QED
      BY <1>1, <2>2, PlainBegin
  <1>3. CASE RemoveMember(h, u, o)
    <2> DEFINE q == [op |-> "remove", who |-> u, org |-> o, row |-> TRUE]
    <2>2. q \in Requests /\ q.op = "remove" /\ q.org = o /\ Begins(h, q)
      BY <1>3, NewRequests DEF RemoveMember
    <2> HIDE DEF q
    <2> QED
      BY <1>1, <2>2, PlainBegin
  <1>4. CASE RevokeInvitation(h, u, o)
    <2> DEFINE q == [op |-> "withdraw", who |-> u, org |-> o]
    <2>2. q \in Requests /\ q.op = "withdraw" /\ q.org = o /\ Begins(h, q)
      BY <1>4, NewRequests DEF RevokeInvitation
    <2> HIDE DEF q
    <2> QED
      BY <1>1, <2>2, PlainBegin
  <1> QED
    BY <1>2, <1>3, <1>4

LEMMA VerifyStep ==
    ASSUME IInv, NEW h \in Callers, NEW u \in Users, Verify(h, u)
    PROVE  IInv'
  <1>1. UNCHANGED Data
    BY DEF Verify, Data, orgVars, deskVars
  <1>2. DataTypes'
    <2>1. invited' \in [Organizations -> [Users ->
             [is : {"none", "pending", "lapsed", "expired", "accepted", "revoked"},
              as : GivenRoles]]]
      <3>1. \A o \in Organizations : invited[o] \in [Users ->
               [is : {"none", "pending", "lapsed", "expired", "accepted", "revoked"},
                as : GivenRoles]]
        BY DEF IInv, TypeOK
      <3>2. \A o \in Organizations : [invited[o] EXCEPT ![u].is = "expired"] \in [Users ->
               [is : {"none", "pending", "lapsed", "expired", "accepted", "revoked"},
                as : GivenRoles]]
        BY <3>1
      <3> QED
        BY <3>1, <3>2 DEF Verify
    <2> QED
      BY <2>1 DEF IInv, TypeOK, DataTypes, Verify, orgVars, deskVars
  <1>3. CASE Begins(h, Idle)
    BY <1>1, <1>2, <1>3, IdleSound, QuietBegin
  <1>4. CASE \E o \in Organizations :
                /\ approval[o] = "approved"
                /\ Elsewhere(u, o) = {} \/ role[o][u] # "none"
                /\ Begins(h, [op |-> "admit", who |-> u, org |-> o, as |-> invited[o][u].as])
    <2>1. PICK o \in Organizations :
             /\ approval[o] = "approved"
             /\ Elsewhere(u, o) = {} \/ role[o][u] # "none"
             /\ Begins(h, [op |-> "admit", who |-> u, org |-> o, as |-> invited[o][u].as])
      BY <1>4
    <2>2. invited[o][u].as \in GivenRoles /\ Exists(o)
      BY <2>1 DEF IInv, TypeOK, Exists, Existing
    <2> DEFINE q == [op |-> "admit", who |-> u, org |-> o, as |-> invited[o][u].as]
    <2>3. q \in Requests /\ q.op = "admit" /\ q.who = u /\ q.org = o /\ Begins(h, q)
      BY <2>1, <2>2, NewRequests
    <2> HIDE DEF q
    <2> QED
      BY <1>1, <1>2, <2>1, <2>2, <2>3, JoinBegins
  <1> QED
    BY <1>3, <1>4 DEF Verify

LEMMA EnsureStep ==
    ASSUME IInv, NEW h \in Callers, NEW o \in Organizations, EnsureWorkspace(h, o)
    PROVE  IInv'
  <1>1. UNCHANGED Data /\ DataTypes' /\ approval[o] \in {"approved", "suspended", "revoked"}
    BY DEF IInv, TypeOK, DataTypes, Data, EnsureWorkspace, orgVars, teamVars
  <1> DEFINE q == [op |-> "seed", org |-> o, left |-> Members(o)]
  <1>2. Members(o) \subseteq Users /\ \A u \in Members(o) : role[o][u] # "none"
    BY DEF Members
  <1>3. q \in Requests /\ q.op = "seed" /\ q.org = o /\ q.left = Members(o) /\ Begins(h, q)
    BY <1>2, NewRequests DEF EnsureWorkspace
  <1> HIDE DEF q
  <1>4. q \in SoundRequests
    BY <1>1, <1>2, <1>3 DEF SoundRequests, Sound, Placed, AppliesAlone, JoinsAlone,
       UsesMembers, ClearsAway, Applying, Joining, Using, Removing
  <1> QED
    BY <1>1, <1>3, <1>4, QuietBegin

LEMMA AssignStep ==
    ASSUME IInv, NEW h \in Callers, NEW u \in Users, NEW o \in Organizations,
           AssignTask(h, u, o)
    PROVE  IInv'
  <1>1. UNCHANGED Data /\ DataTypes' /\ Exists(o) /\ role[o][u] # "none"
    BY DEF IInv, TypeOK, DataTypes, Data, AssignTask, orgVars, teamVars, deskVars
  <1> DEFINE q == [op |-> "assign", who |-> u, org |-> o]
  <1>2. q \in Requests /\ q.op = "assign" /\ q.who = u /\ q.org = o /\ Begins(h, q)
    BY NewRequests DEF AssignTask
  <1> HIDE DEF q
  <1>3. q \in SoundRequests
    BY <1>1, <1>2 DEF SoundRequests, Sound, Placed, AppliesAlone, JoinsAlone,
       UsesMembers, ClearsAway, Applying, Joining, Using, Removing, Exists, Existing
  <1> QED
    BY <1>1, <1>2, <1>3, QuietBegin

-----------------------------------------------------------------------------
(* Requests that end, having written what these properties do not speak of *)

LEMMA EndsFacts ==
    ASSUME IInv, NEW h \in Callers, Ends(h)
    PROVE  Replaces(h, Idle) /\ Grows
  <1>1. TypeOK /\ Idle \in Requests /\ Continues(h, Idle)
    BY NewRequests DEF IInv, Ends
  <1> QED
    BY <1>1, ContinuesReplaces DEF Replaces, Grows

\* The handler is done and what it wrote left everything true.
LEMMA EndsKeep ==
    ASSUME IInv, NEW h \in Callers, Ends(h), DataTypes', TeamsSound' /\ OthersSound(h)
    PROVE  IInv'
  <1>1. Idle \in SoundRequests'
    BY NewRequests DEF SoundRequests, Sound, Placed, AppliesAlone, JoinsAlone, UsesMembers,
       ClearsAway, Idle, Applying, Joining, Using, Removing
  <1> QED
    BY <1>1, EndsFacts, NewRequests, Closes

LEMMA QuietEnd ==
    ASSUME IInv, NEW h \in Callers, Ends(h), UNCHANGED Data, DataTypes'
    PROVE  IInv'
  BY EndsFacts, Frame, EndsKeep

\* An invitation is renamed; it keeps the role it was for.
LEMMA InvitationTypes ==
    ASSUME TypeOK, NEW o \in Organizations, NEW u \in Users,
           NEW s \in {"lapsed", "accepted", "revoked"},
           invited' = [invited EXCEPT ![o][u].is = s]
    PROVE  invited' \in [Organizations -> [Users ->
              [is : {"none", "pending", "lapsed", "expired", "accepted", "revoked"},
               as : GivenRoles]]]
  <1> DEFINE Rows == [is : {"none", "pending", "lapsed", "expired", "accepted", "revoked"},
                      as : GivenRoles]
  <1>1. invited \in [Organizations -> [Users -> Rows]]
    BY DEF TypeOK
  <1>2. [invited[o][u] EXCEPT !.is = s] \in Rows
    BY <1>1
  <1>3. invited' = [invited EXCEPT ![o] = [invited[o] EXCEPT
                       ![u] = [invited[o][u] EXCEPT !.is = s]]]
    BY <1>1
  <1> HIDE DEF Rows
  <1>4. invited' \in [Organizations -> [Users -> Rows]]
    BY <1>1, <1>2, <1>3
  <1> QED
    BY <1>4 DEF Rows

LEMMA InvitationWritten ==
    ASSUME IInv, NEW h \in Callers, Invites(h) \/ Revokes(h) \/ Accepts(h)
    PROVE  IInv'
  <1>1. Ends(h) /\ UNCHANGED Data
    BY DEF Invites, Revokes, Accepts, Data, orgVars, deskVars
  <1>2. req[h] \in Requests
    BY DEF IInv, TypeOK
  <1>3. DataTypes'
    <2>1. CASE Invites(h)
      <3>1. req[h].as \in GivenRoles
        BY <1>2, <2>1, RequestTypes DEF Invites
      <3> QED
        BY <2>1, <3>1 DEF IInv, TypeOK, DataTypes, Invites, orgVars, deskVars
    <2>2. CASE Revokes(h)
      <3>1. req[h].org \in Organizations /\ req[h].who \in Users
        BY <1>2, <2>2, RequestTypes DEF Revokes
      <3> QED
        BY <2>2, <3>1, InvitationTypes
        DEF IInv, TypeOK, DataTypes, Revokes, orgVars, deskVars
    <2>3. CASE Accepts(h)
      <3>1. req[h].org \in Organizations /\ req[h].who \in Users
        BY <1>2, <2>3, RequestTypes DEF Accepts
      <3> QED
        BY <2>3, <3>1, InvitationTypes
        DEF IInv, TypeOK, DataTypes, Accepts, orgVars, deskVars
    <2> QED
      BY <2>1, <2>2, <2>3
  <1> QED
    BY <1>1, <1>3, QuietEnd

LEMMA FailsStep ==
    ASSUME IInv, NEW h \in Callers, Fails(h)
    PROVE  IInv'
  <1>1. Ends(h) /\ UNCHANGED Data /\ DataTypes'
    BY DEF Fails, IInv, TypeOK, DataTypes, Data, orgVars, teamVars, deskVars
  <1> QED
    BY <1>1, QuietEnd

\* The clock, on its own.
LEMMA LapseStep ==
    ASSUME IInv, NEW o \in Organizations, NEW u \in Users, InvitationLapses(o, u)
    PROVE  IInv'
  <1>1. UNCHANGED Data /\ UNCHANGED <<req, calls, raced, late>>
    BY DEF InvitationLapses, Data, orgVars, deskVars
  <1>2. TypeOK'
    BY InvitationTypes DEF IInv, TypeOK, InvitationLapses, orgVars, deskVars
  <1>3. Marked'
    BY <1>1 DEF IInv, Marked, Raced, Late
  <1>4. ASSUME NEW h \in Callers
        PROVE  req'[h] \in SoundRequests' /\ TeamsSound'
    BY <1>1, Frame DEF IInv, Grows
  <1>5. TeamsSound'
    BY <1>1 DEF IInv, TeamsSound, Data, Unfounded, BarredMarked, OneApplication, Owned,
       JoinsOneOrganization, TasksNameMembers, NoAccessLeftBehind, Exists
  <1> QED
    BY <1>2, <1>3, <1>4, <1>5 DEF IInv

-----------------------------------------------------------------------------
(* Applications *)

LEMMA ResubmitsStep ==
    ASSUME IInv, NEW h \in Callers, Resubmits(h)
    PROVE  IInv'
  <1> DEFINE o == req[h].org
  <1>1. o \in Organizations /\ Exists(o)
    BY RequestTypes DEF IInv, TypeOK, Resubmits
  <1>2. /\ approval' = [approval EXCEPT ![o] = "pending"] /\ "pending" \in Existing
        /\ UNCHANGED <<founder, role, access, tasked, barred>> /\ Ends(h)
    BY DEF Resubmits, teamVars, deskVars, Existing
  <1>3. DataTypes'
    BY <1>2 DEF IInv, TypeOK, DataTypes, Resubmits, teamVars, deskVars
  <1> HIDE DEF o
  <1>4. TeamsSound' /\ OthersSound(h)
    BY <1>1, <1>2, EndsFacts, ApprovalSet
  <1> QED
    BY <1>2, <1>3, <1>4, EndsKeep

LEMMA DecidesStep ==
    ASSUME IInv, NEW h \in Callers, Decides(h)
    PROVE  IInv'
  <1> DEFINE o == req[h].org
  <1> DEFINE to == req[h].to
  <1>1. o \in Organizations /\ Exists(o) /\ to \in Decisions /\ to \in Existing
    BY RequestTypes DEF IInv, TypeOK, Decides, Decisions, Existing
  <1>2. /\ approval' = [approval EXCEPT ![o] = to]
        /\ barred' = IF to \in {"suspended", "revoked"} THEN barred \cup {o} ELSE barred
        /\ UNCHANGED <<founder, role, access, tasked>> /\ Ends(h)
    BY DEF Decides, teamVars, deskVars
  <1>3. DataTypes'
    BY <1>1, <1>2 DEF IInv, TypeOK, DataTypes, Decides, teamVars, deskVars
  <1> HIDE DEF o, to
  <1>4. barred \subseteq barred' /\ (to \in {"suspended", "revoked"} => o \in barred')
    BY <1>2
  <1>5. TeamsSound' /\ OthersSound(h)
    BY <1>1, <1>2, <1>4, EndsFacts, ApprovalSet
  <1> QED
    BY <1>2, <1>3, <1>5, EndsKeep

LEMMA CreatesStep ==
    ASSUME IInv, NEW h \in Callers, NEW o \in Organizations, CreatesOrganization(h, o)
    PROVE  IInv'
  <1>1. PICK r \in SoundRequests : r = req[h]
    BY DEF IInv
  <1>2. r \in Requests /\ r.op = "apply" /\ r.who \in Users /\ approval[o] = "none"
    BY <1>1, RequestTypes DEF CreatesOrganization, SoundRequests
  <1> DEFINE q == [op |-> "own", who |-> r.who, org |-> o]
  <1>3. q \in Requests /\ q.op = "own" /\ q.who = r.who /\ q.org = o
    BY <1>2, NewRequests
  <1>4. /\ approval' = [approval EXCEPT ![o] = "pending"]
        /\ founder' = [founder EXCEPT ![o] = r.who]
        /\ UNCHANGED <<role, access, tasked, barred>> /\ Continues(h, q)
    BY <1>1 DEF CreatesOrganization, teamVars, deskVars
  <1>5. DataTypes' /\ approval'[o] = "pending" /\ founder'[o] = r.who
    BY <1>2, <1>4 DEF IInv, TypeOK, DataTypes, CreatesOrganization, teamVars, deskVars, Existing
  <1> HIDE DEF q
  <1>6. Replaces(h, q) /\ Grows
    BY <1>3, <1>4, ContinuesReplaces DEF IInv, Replaces, Grows
  <1>7. TeamsSound' /\ OthersSound(h)
    BY <1>2, <1>4, <1>6, Founded
  <1>8. AppliesAlone(q)'
    <2>1. \A p \in Organizations : r.who \notin raced /\ role[p][r.who] = "owner" => p \in barred
      BY <1>2 DEF SoundRequests, Sound, AppliesAlone, Applying
    <2> QED
      BY <1>3, <1>4, <1>6, <2>1 DEF AppliesAlone, Applying, Grows
  <1>9. q \in SoundRequests'
    BY <1>3, <1>5, <1>8 DEF SoundRequests, Sound, Placed, JoinsAlone, UsesMembers,
       ClearsAway, Joining, Using, Removing
  <1> QED
    BY <1>3, <1>5, <1>6, <1>7, <1>9, Closes

LEMMA BecomesOwnerStep ==
    ASSUME IInv, NEW h \in Callers, BecomesOwner(h)
    PROVE  IInv'
  <1> DEFINE o == req[h].org
  <1> DEFINE u == req[h].who
  <1>1. /\ o \in Organizations /\ u \in Users /\ Exists(o)
        /\ req[h].op = "own" /\ req[h].org = o /\ req[h].who = u
    BY RequestTypes DEF IInv, TypeOK, BecomesOwner
  <1>2. /\ role' = [role EXCEPT ![o][u] = "owner"]
        /\ UNCHANGED <<approval, founder, access, tasked, barred>> /\ Ends(h)
    BY DEF BecomesOwner, orgVars, deskVars
  <1>3. DataTypes'
    BY <1>1, <1>2 DEF IInv, TypeOK, DataTypes, BecomesOwner, orgVars, deskVars
  <1> HIDE DEF o, u
  <1>4. RoleSet(o, u, "owner")
    BY <1>1, <1>2, RoleIsSet DEF IInv
  <1>5. TeamsSound' /\ OthersSound(h)
    BY <1>1, <1>2, <1>4, EndsFacts, RoleOwned
  <1> QED
    BY <1>2, <1>3, <1>5, EndsKeep

LEMMA DisbandsTypes ==
    ASSUME IInv, NEW o \in Organizations, Disbands(o)
    PROVE  DataTypes'
  <1> DEFINE Rows == [is : {"none", "pending", "lapsed", "expired", "accepted", "revoked"},
                      as : GivenRoles]
  <1>1. [u \in Users |-> [is |-> "none", as |-> "member"]] \in [Users -> Rows]
    BY DEF GivenRoles
  <1>2. invited \in [Organizations -> [Users -> Rows]]
    BY DEF IInv, TypeOK
  <1> HIDE DEF Rows
  <1>3. invited' \in [Organizations -> [Users -> Rows]]
    BY <1>1, <1>2 DEF Disbands
  <1>4. role' \in [Organizations -> [Users -> GivenRoles \cup {"owner", "none"}]]
    BY DEF IInv, TypeOK, Disbands
  <1>5. approval' \in [Organizations -> Existing \cup {"none", "deleted"}]
    BY DEF IInv, TypeOK, Disbands
  <1> QED
    BY <1>3, <1>4, <1>5 DEF IInv, TypeOK, DataTypes, Disbands, deskVars, Rows

LEMMA TakesBackStep ==
    ASSUME IInv, NEW h \in Callers, TakesBack(h)
    PROVE  IInv'
  <1> DEFINE o == req[h].org
  <1>1. o \in Organizations /\ Disbands(o) /\ Ends(h)
    BY RequestTypes DEF IInv, TypeOK, TakesBack
  <1> HIDE DEF o
  <1>2. TeamsSound' /\ OthersSound(h) /\ DataTypes'
    BY <1>1, EndsFacts, Disbanded, DisbandsTypes
  <1> QED
    BY <1>1, <1>2, EndsKeep

LEMMA DeleteStep ==
    ASSUME IInv, NEW h \in Callers, NEW o \in Organizations, DeleteOrganizer(h, o)
    PROVE  IInv'
  <1>1. /\ Disbands(o) /\ UNCHANGED <<req, raced, late>> /\ calls' \in 0 .. MaxCalls
        /\ req[h] = Idle
    BY OrganizersAssumption DEF DeleteOrganizer, IInv, TypeOK
  <1>2. TeamsSound' /\ OthersSound(h) /\ DataTypes'
    BY <1>1, Disbanded, DisbandsTypes DEF Grows
  <1>3. TypeOK'
    BY <1>1, <1>2 DEF IInv, TypeOK, DataTypes
  <1>4. Marked'
    BY <1>1 DEF IInv, Marked, Raced, Late
  <1>5. Idle \in SoundRequests'
    BY NewRequests DEF SoundRequests, Sound, Placed, AppliesAlone, JoinsAlone, UsesMembers,
       ClearsAway, Idle, Applying, Joining, Using, Removing
  <1>6. \A g \in Callers : req'[g] \in SoundRequests'
    BY <1>1, <1>2, <1>5 DEF OthersSound
  <1> QED
    BY <1>2, <1>3, <1>4, <1>6 DEF IInv

-----------------------------------------------------------------------------
(* The team *)

LEMMA RoleTypes ==
    ASSUME TypeOK, NEW o \in Organizations, NEW u \in Users, NEW v \in GivenRoles \cup {"none"},
           role' = [role EXCEPT ![o][u] = v],
           UNCHANGED <<orgVars, invited, verified, deskVars>>
    PROVE  DataTypes'
  <1>1. role \in [Organizations -> [Users -> GivenRoles \cup {"owner", "none"}]]
    BY DEF TypeOK
  <1>2. [role[o] EXCEPT ![u] = v] \in [Users -> GivenRoles \cup {"owner", "none"}]
    BY <1>1
  <1>3. role' = [role EXCEPT ![o] = [role[o] EXCEPT ![u] = v]]
    BY <1>1
  <1>4. role' \in [Organizations -> [Users -> GivenRoles \cup {"owner", "none"}]]
    BY <1>1, <1>2, <1>3
  <1> QED
    BY <1>4 DEF TypeOK, DataTypes, orgVars, deskVars

LEMMA AddsStep ==
    ASSUME IInv, NEW h \in Callers, Adds(h)
    PROVE  IInv'
  <1>1. PICK r \in Requests : r = req[h]
    BY DEF IInv, TypeOK
  <1>2. /\ r.op \in {"add", "enter"} /\ r.org \in Organizations /\ r.who \in Users
        /\ r.as \in GivenRoles /\ Exists(r.org) /\ Ends(h)
        /\ role' = [role EXCEPT ![r.org][r.who] = r.as]
        /\ UNCHANGED <<approval, founder, access, tasked, barred>>
    BY <1>1, RequestTypes DEF Adds, orgVars, deskVars
  <1>3. DataTypes'
    BY <1>2, RoleTypes DEF IInv, Adds
  <1>4. RoleSet(r.org, r.who, r.as)
    BY <1>2, RoleIsSet DEF IInv
  <1>5. Joining(req[h], r.who) /\ req[h].org = r.org
    BY <1>1, <1>2 DEF Joining
  <1>6. TeamsSound' /\ OthersSound(h)
    BY <1>2, <1>4, <1>5, EndsFacts, RoleGiven
  <1> QED
    BY <1>2, <1>3, <1>6, EndsKeep

LEMMA UpdatesStep ==
    ASSUME IInv, NEW h \in Callers, UpdatesMember(h)
    PROVE  IInv'
  <1>1. PICK r \in Requests : r = req[h]
    BY DEF IInv, TypeOK
  <1>2. /\ r.op = "promote" /\ r.org \in Organizations /\ r.who \in Users
        /\ r.as \in GivenRoles /\ role[r.org][r.who] # "none" /\ Ends(h)
        /\ role' = [role EXCEPT ![r.org][r.who] = r.as]
        /\ UNCHANGED <<approval, founder, access, tasked, barred>>
    BY <1>1, RequestTypes DEF UpdatesMember, orgVars, deskVars
  <1>3. DataTypes'
    BY <1>2, RoleTypes DEF IInv, UpdatesMember
  <1>4. RoleSet(r.org, r.who, r.as) /\ Exists(r.org)
    BY <1>2, RoleIsSet DEF IInv, TeamsSound, Unfounded
  <1>5. TeamsSound' /\ OthersSound(h)
    BY <1>2, <1>4, EndsFacts, RoleGiven
  <1> QED
    BY <1>2, <1>3, <1>5, EndsKeep

\* First the tasks let go of the one who is removed ...
LEMMA UnassignsStep ==
    ASSUME IInv, NEW h \in Callers, UnassignsTasks(h)
    PROVE  IInv'
  <1>1. PICK r \in SoundRequests : r = req[h]
    BY DEF IInv
  <1>2. PICK q : q = [r EXCEPT !.op = "shut_out"]
    OBVIOUS
  <1>3. /\ r \in Requests /\ r.op = "remove" /\ r.org \in Organizations /\ r.who \in Users
        /\ approval[r.org] # "none"
    BY <1>1, RequestTypes DEF UnassignsTasks, SoundRequests, Sound, Placed
  <1>4. q \in Requests /\ q.op = "shut_out" /\ q.org = r.org /\ q.who = r.who
    BY <1>2, <1>3, NextRequests
  <1>5. PICK S \in SUBSET Users : S = tasked[r.org] \ {r.who}
    BY <1>3 DEF IInv, TypeOK
  <1>6. /\ tasked' = [tasked EXCEPT ![r.org] = S] /\ Continues(h, q)
        /\ UNCHANGED <<approval, founder, role, access, barred>>
    BY <1>1, <1>2, <1>5 DEF UnassignsTasks, Unassigned, orgVars, teamVars
  <1>7. Replaces(h, q) /\ Grows
    BY <1>4, <1>6, ContinuesReplaces DEF IInv, Replaces, Grows
  <1>8. TeamsSound' /\ OthersSound(h)
    BY <1>3, <1>5, <1>6, <1>7, TasksSet
  <1>9. DataTypes' /\ tasked'[r.org] = S
    BY <1>3, <1>6 DEF IInv, TypeOK, DataTypes, UnassignsTasks, orgVars, teamVars
  <1>10. approval'[r.org] # "none" /\ r.who \notin tasked'[r.org]
    BY <1>3, <1>5, <1>6, <1>9
  <1>11. q \in SoundRequests'
    BY <1>4, <1>10 DEF SoundRequests, Sound, Placed, AppliesAlone, JoinsAlone,
       UsesMembers, ClearsAway, Applying, Joining, Using, Removing
  <1> QED
    BY <1>4, <1>7, <1>8, <1>9, <1>11, Closes

\* ... then the workspace does ...
LEMMA DropsStep ==
    ASSUME IInv, NEW h \in Callers, DropsAccess(h)
    PROVE  IInv'
  <1>1. PICK r \in SoundRequests : r = req[h]
    BY DEF IInv
  <1>2. PICK q : q = [r EXCEPT !.op = "leave"]
    OBVIOUS
  <1>3. /\ r \in Requests /\ r.op = "shut_out" /\ r.org \in Organizations /\ r.who \in Users
        /\ approval[r.org] # "none"
        /\ r.who \notin tasked[r.org] \/ <<r.org, r.who>> \in late
    BY <1>1, RequestTypes DEF DropsAccess, SoundRequests, Sound, Placed, ClearsAway, Removing
  <1>4. q \in Requests /\ q.op = "leave" /\ q.org = r.org /\ q.who = r.who
    BY <1>2, <1>3, NextRequests
  <1>5. PICK S \in SUBSET Users : S = access[r.org] \ {r.who}
    BY <1>3 DEF IInv, TypeOK
  <1>6. /\ access' = [access EXCEPT ![r.org] = S] /\ Continues(h, q)
        /\ UNCHANGED <<approval, founder, role, tasked, barred>>
    BY <1>1, <1>2, <1>5 DEF DropsAccess, ShutOut, orgVars, teamVars
  <1>7. Replaces(h, q) /\ Grows
    BY <1>4, <1>6, ContinuesReplaces DEF IInv, Replaces, Grows
  <1>8. TeamsSound' /\ OthersSound(h)
    BY <1>3, <1>5, <1>6, <1>7, AccessSet
  <1>9. DataTypes' /\ access'[r.org] = S
    BY <1>3, <1>6 DEF IInv, TypeOK, DataTypes, DropsAccess, orgVars, teamVars
  <1>10. /\ approval'[r.org] # "none" /\ r.who \notin access'[r.org]
         /\ r.who \notin tasked'[r.org] \/ <<r.org, r.who>> \in late'
    BY <1>3, <1>5, <1>6, <1>7, <1>9 DEF Grows
  <1>11. q \in SoundRequests'
    BY <1>4, <1>10 DEF SoundRequests, Sound, Placed, AppliesAlone, JoinsAlone,
       UsesMembers, ClearsAway, Applying, Joining, Using, Removing
  <1> QED
    BY <1>4, <1>7, <1>8, <1>9, <1>11, Closes

\* ... then the row goes, under whoever else holds it.
LEMMA LeavesStep ==
    ASSUME IInv, NEW h \in Callers, Leaves(h)
    PROVE  IInv'
  <1>1. PICK r \in Requests : r = req[h]
    BY DEF IInv, TypeOK
  <1>2. /\ r.op = "leave" /\ r.org \in Organizations /\ r.who \in Users
        /\ role' = [role EXCEPT ![r.org][r.who] = "none"]
        /\ UNCHANGED <<approval, founder, access, tasked, barred>>
    BY <1>1, RequestTypes DEF Leaves, orgVars, deskVars
  <1>3. Moves([g \in Callers |->
                  IF g = h THEN Idle
                  ELSE IF HoldsRow(req[g], r.org, r.who) THEN [req[g] EXCEPT !.row = FALSE]
                  ELSE req[g]])
    BY <1>1 DEF Leaves
  <1>4. /\ raced' \subseteq Users /\ late' \subseteq Organizations \X Users
        /\ Grows /\ Raced(req') \subseteq raced' /\ Late(req') \subseteq late'
    BY <1>3, Marks DEF IInv, Grows
  <1>5. req' = [g \in Callers |->
                  IF g = h THEN Idle
                  ELSE IF HoldsRow(req[g], r.org, r.who) THEN [req[g] EXCEPT !.row = FALSE]
                  ELSE req[g]]
    BY <1>3 DEF Moves
  <1>6. RoleSet(r.org, r.who, "none")
    BY <1>2, RoleIsSet DEF IInv
  <1>7. TeamsSound' /\ OthersSound(h)
    BY <1>1, <1>2, <1>4, <1>6, RoleLost
  <1>8. ASSUME NEW q \in SoundRequests', HoldsRow(q, r.org, r.who)
        PROVE  [q EXCEPT !.row = FALSE] \in SoundRequests'
    <2>1. PICK f : f = [q EXCEPT !.row = FALSE]
      OBVIOUS
    <2>2. /\ q \in Requests /\ Sound(q)' /\ q.op \in {"promote", "remove", "shut_out", "leave"}
      BY <1>8 DEF SoundRequests, HoldsRow
    <2>3. f \in Requests /\ f.op = q.op /\ f.org = q.org /\ f.who = q.who
      BY <2>1, <2>2, NextRequests
    <2>4. Placed(f)' /\ AppliesAlone(f)' /\ JoinsAlone(f)'
      BY <2>2, <2>3 DEF Sound, Placed, AppliesAlone, JoinsAlone, Applying, Joining
    <2>5. UsesMembers(f)' /\ ClearsAway(f)'
      BY <2>2, <2>3 DEF Sound, UsesMembers, ClearsAway, Using, Removing
    <2> QED
      BY <2>1, <2>3, <2>4, <2>5 DEF SoundRequests, Sound
  <1>9. Idle \in SoundRequests'
    BY NewRequests DEF SoundRequests, Sound, Placed, AppliesAlone, JoinsAlone, UsesMembers,
       ClearsAway, Idle, Applying, Joining, Using, Removing
  <1>10. \A g \in Callers : req'[g] \in SoundRequests'
    BY <1>5, <1>7, <1>8, <1>9 DEF OthersSound
  <1>11. req' \in [Callers -> Requests]
    BY <1>5, <1>10 DEF SoundRequests
  <1>12. TypeOK'
    <2>1. DataTypes'
      BY <1>2, RoleTypes DEF IInv, Leaves
    <2>2. calls' \in 0 .. MaxCalls
      BY DEF Leaves, IInv, TypeOK
    <2> QED
      BY <1>4, <1>11, <2>1, <2>2 DEF TypeOK, DataTypes
  <1>13. Marked'
    BY <1>4 DEF Marked
  <1> QED
    BY <1>7, <1>10, <1>12, <1>13 DEF IInv

-----------------------------------------------------------------------------
(* Invitations accepted, and the workspace *)

LEMMA AdmitsStep ==
    ASSUME IInv, NEW h \in Callers, Admits(h)
    PROVE  IInv'
  <1>1. PICK r \in Requests : r = req[h]
    BY DEF IInv, TypeOK
  <1>2. PICK q : q = [r EXCEPT !.op = "let_in"]
    OBVIOUS
  <1>3. /\ r.op = "admit" /\ r.org \in Organizations /\ r.who \in Users
        /\ r.as \in GivenRoles /\ Exists(r.org)
        /\ role' = [role EXCEPT ![r.org][r.who] = r.as] /\ Continues(h, q)
        /\ UNCHANGED <<approval, founder, access, tasked, barred>>
    BY <1>1, <1>2, RequestTypes DEF Admits, orgVars, deskVars
  <1>4. q \in Requests /\ q.op = "let_in" /\ q.org = r.org /\ q.who = r.who
    BY <1>2, <1>3, NextRequests
  <1>5. DataTypes'
    BY <1>3, RoleTypes DEF IInv, Admits
  <1>6. RoleSet(r.org, r.who, r.as)
    BY <1>3, RoleIsSet DEF IInv
  <1>7. Joining(req[h], r.who) /\ req[h].org = r.org
    BY <1>1, <1>3 DEF Joining
  <1>8. Replaces(h, q) /\ Grows
    BY <1>3, <1>4, ContinuesReplaces DEF IInv, Replaces, Grows
  <1>9. TeamsSound' /\ OthersSound(h)
    BY <1>3, <1>6, <1>7, <1>8, RoleGiven
  <1>10. approval'[r.org] # "none" /\ role'[r.org][r.who] # "none"
    BY <1>3, <1>6 DEF RoleSet, GivenRoles, Exists, Existing
  <1>11. q \in SoundRequests'
    BY <1>4, <1>10 DEF SoundRequests, Sound, Placed, AppliesAlone, JoinsAlone,
       UsesMembers, ClearsAway, Applying, Joining, Using, Removing
  <1> QED
    BY <1>4, <1>5, <1>8, <1>9, <1>11, Closes

LEMMA LetsInStep ==
    ASSUME IInv, NEW h \in Callers, LetsIn(h)
    PROVE  IInv'
  <1>1. PICK r \in SoundRequests : r = req[h]
    BY DEF IInv
  <1>2. PICK q : q = [r EXCEPT !.op = "accepted"]
    OBVIOUS
  <1>3. /\ r \in Requests /\ r.op = "let_in" /\ r.org \in Organizations /\ r.who \in Users
        /\ approval[r.org] # "none"
    BY <1>1, RequestTypes DEF LetsIn, SoundRequests, Sound, Placed
  <1>4. q \in Requests /\ q.op = "accepted" /\ q.org = r.org /\ q.who = r.who
    BY <1>2, <1>3, NextRequests
  <1>5. PICK S \in SUBSET Users : S = access[r.org] \cup {r.who}
    BY <1>3 DEF IInv, TypeOK
  <1>6. /\ access' = [access EXCEPT ![r.org] = S] \/ access' = access
        /\ Continues(h, q)
        /\ UNCHANGED <<approval, founder, role, tasked, barred>>
    BY <1>1, <1>2, <1>3, <1>5 DEF LetsIn, orgVars, teamVars, IInv, TypeOK
  <1>7. Replaces(h, q) /\ Grows
    BY <1>4, <1>6, ContinuesReplaces DEF IInv, Replaces, Grows
  <1>8. \A u \in S \ access[r.org] : req[h].op \in {"let_in", "seed"} /\ Using(req[h], r.org, u)
    BY <1>1, <1>3, <1>5 DEF Using
  <1>9. TeamsSound' /\ OthersSound(h)
    <2>1. CASE access' = access
      BY <1>6, <1>7, <2>1, Frame DEF Data
    <2>2. CASE access' = [access EXCEPT ![r.org] = S]
      BY <1>3, <1>6, <1>7, <1>8, <2>2, AccessSet
    <2> QED
      BY <1>6, <2>1, <2>2
  <1>10. DataTypes'
    BY <1>3, <1>6 DEF IInv, TypeOK, DataTypes, LetsIn, orgVars, teamVars
  <1>11. q \in SoundRequests'
    BY <1>3, <1>4, <1>6 DEF SoundRequests, Sound, Placed, AppliesAlone, JoinsAlone,
       UsesMembers, ClearsAway, Applying, Joining, Using, Removing
  <1> QED
    BY <1>4, <1>7, <1>9, <1>10, <1>11, Closes

LEMMA SeedsStep ==
    ASSUME IInv, NEW h \in Callers, SeedsRow(h)
    PROVE  IInv'
  <1>1. PICK r \in SoundRequests : r = req[h]
    BY DEF IInv
  <1>2. /\ r \in Requests /\ r.op = "seed" /\ r.org \in Organizations /\ r.left \subseteq Users
        /\ approval[r.org] # "none"
        /\ UNCHANGED <<approval, founder, role, tasked, barred>>
    BY <1>1, RequestTypes DEF SeedsRow, SoundRequests, Sound, Placed, orgVars, teamVars
  <1>3. PICK u \in r.left :
           IF u \in access[r.org]
             THEN Ends(h) /\ UNCHANGED access
             ELSE /\ access' = [access EXCEPT ![r.org] = @ \cup {u}]
                  /\ Continues(h, IF r.left = {u} THEN Idle ELSE [r EXCEPT !.left = @ \ {u}])
    BY <1>1 DEF SeedsRow
  <1>4. CASE u \in access[r.org]
    <2>1. Ends(h) /\ UNCHANGED Data /\ DataTypes'
      BY <1>2, <1>3, <1>4 DEF IInv, TypeOK, DataTypes, Data, SeedsRow, orgVars, teamVars
    <2> QED
      BY <2>1, QuietEnd
  <1>5. CASE u \notin access[r.org]
    <2>1. PICK S \in SUBSET Users : S = access[r.org] \cup {u}
      BY <1>2, <1>3 DEF IInv, TypeOK
    <2>2. access' = [access EXCEPT ![r.org] = S]
      BY <1>2, <1>3, <1>5, <2>1 DEF IInv, TypeOK
    <2>3. DataTypes'
      BY <1>2, <2>2 DEF IInv, TypeOK, DataTypes, SeedsRow, orgVars, teamVars
    <2>4. \A w \in S \ access[r.org] :
             req[h].op \in {"let_in", "seed"} /\ Using(req[h], r.org, w)
      BY <1>1, <1>2, <1>3, <2>1 DEF Using
    <2>5. CASE r.left = {u}
      <3>1. Ends(h)
        BY <1>3, <1>5, <2>5 DEF Ends
      <3>2. TeamsSound' /\ OthersSound(h)
        BY <1>2, <2>2, <2>4, <3>1, EndsFacts, AccessSet
      <3> QED
        BY <2>3, <3>1, <3>2, EndsKeep
    <2>6. CASE r.left # {u}
      <3>0. PICK rest \in SUBSET Users : rest = r.left \ {u}
        BY <1>2
      <3>1. PICK q : q = [r EXCEPT !.left = rest]
        OBVIOUS
      <3>2. q \in Requests /\ q.op = "seed" /\ q.org = r.org /\ q.left = r.left \ {u}
        BY <1>2, <3>0, <3>1, SeedRequests
      <3>3. [r EXCEPT !.left = @ \ {u}] = q
        BY <3>0, <3>1
      <3>4. Continues(h, q)
        BY <1>3, <1>5, <2>6, <3>3
      <3>5. Replaces(h, q) /\ Grows
        BY <3>2, <3>4, ContinuesReplaces DEF IInv, Replaces, Grows
      <3>6. TeamsSound' /\ OthersSound(h)
        BY <1>2, <2>2, <2>4, <3>5, AccessSet
      <3>7. \A w \in q.left : Exists(r.org) => role[r.org][w] # "none" \/ <<r.org, w>> \in late
        BY <1>2, <3>2 DEF SoundRequests, Sound, UsesMembers, Using
      <3>8. UsesMembers(q)'
        BY <1>2, <3>2, <3>5, <3>7 DEF UsesMembers, Using, Grows, Exists
      <3>9. q \in SoundRequests'
        BY <1>2, <3>2, <3>8 DEF SoundRequests, Sound, Placed, AppliesAlone, JoinsAlone,
           ClearsAway, Applying, Joining, Removing
      <3> QED
        BY <2>3, <3>2, <3>5, <3>6, <3>9, Closes
    <2> QED
      BY <2>5, <2>6
  <1> QED
    BY <1>4, <1>5

LEMMA AssignsStep ==
    ASSUME IInv, NEW h \in Callers, Assigns(h)
    PROVE  IInv'
  <1>1. PICK r \in SoundRequests : r = req[h]
    BY DEF IInv
  <1>2. /\ r \in Requests /\ r.op = "assign" /\ r.org \in Organizations /\ r.who \in Users
        /\ approval[r.org] # "none" /\ Ends(h)
        /\ UNCHANGED <<approval, founder, role, access, barred>>
    BY <1>1, RequestTypes DEF Assigns, SoundRequests, Sound, Placed, orgVars, teamVars
  <1>3. PICK S \in SUBSET Users : S = tasked[r.org] \cup {r.who}
    BY <1>2 DEF IInv, TypeOK
  <1>4. tasked' = [tasked EXCEPT ![r.org] = S]
    BY <1>1, <1>2, <1>3 DEF Assigns, IInv, TypeOK
  <1>5. \A u \in S \ tasked[r.org] : req[h].op = "assign" /\ Using(req[h], r.org, u)
    BY <1>1, <1>2, <1>3 DEF Using
  <1>6. TeamsSound' /\ OthersSound(h)
    BY <1>2, <1>4, <1>5, EndsFacts, TasksSet
  <1>7. DataTypes'
    BY <1>2, <1>4 DEF IInv, TypeOK, DataTypes, Assigns, orgVars, teamVars
  <1> QED
    BY <1>2, <1>6, <1>7, EndsKeep

-----------------------------------------------------------------------------
(* The theorems *)

LEMMA Start == Init => IInv
  <1> SUFFICES ASSUME Init
               PROVE  IInv
    OBVIOUS
  <1>1. \A h \in Callers : req[h] = Idle
    BY DEF Init
  <1>2. \A h \in Callers : req[h] \in SoundRequests
    BY <1>1, IdleSound
  <1>3. Marked
    BY <1>1 DEF Marked, Raced, Late, Idle, Joining, Applying, Removing, Using
  <1>4. TypeOK
    <2>1. req \in [Callers -> Requests] /\ calls \in 0 .. MaxCalls
      BY NewRequests, OrganizersAssumption DEF Init
    <2>2. approval \in [Organizations -> Existing \cup {"none", "deleted"}]
      BY DEF Init, Existing
    <2>3. invited \in [Organizations -> [Users ->
             [is : {"none", "pending", "lapsed", "expired", "accepted", "revoked"},
              as : GivenRoles]]]
      BY DEF Init, GivenRoles
    <2>4. /\ access \in [Organizations -> SUBSET Users]
          /\ tasked \in [Organizations -> SUBSET Users]
      BY DEF Init
    <2> QED
      BY <2>1, <2>2, <2>3, <2>4 DEF Init, TypeOK
  <1>5. TeamsSound
    <2>1. ASSUME NEW o \in Organizations, NEW u \in Users
          PROVE  /\ role[o][u] = "owner" \/ role[o][u] = "none"
                 /\ role[o][u] # "none" <=> founder[o] = u
      BY DEF Init
    <2>2. ASSUME NEW o \in Organizations
          PROVE  /\ tasked[o] = {}
                 /\ \A u \in access[o] : founder[o] = u /\ founder[o] # NoUser
                 /\ approval[o] = "none" <=> founder[o] = NoUser
                 /\ approval[o] \in {"none", "approved"}
      BY DEF Init
    <2>3. \A o, p \in Organizations : o # p /\ founder[o] # NoUser => founder[o] # founder[p]
      BY DEF Init
    <2>4. NoUser \notin Users
      BY OrganizersAssumption
    <2>5. Unfounded /\ BarredMarked
      <3> SUFFICES ASSUME NEW o \in Organizations
                   PROVE  /\ approval[o] = "none" => access[o] = {} /\ tasked[o] = {}
                          /\ ~Exists(o) => \A u \in Users : role[o][u] = "none"
                          /\ approval[o] \notin {"suspended", "revoked"}
        BY DEF Unfounded, BarredMarked
      <3>1. approval[o] \notin {"suspended", "revoked"} /\ (~Exists(o) => approval[o] = "none")
        BY <2>2 DEF Exists, Existing
      <3> QED
        BY <2>1, <2>2, <2>4, <3>1
    <2>6. OneApplication /\ JoinsOneOrganization
      <3>1. ASSUME NEW u \in Users, NEW o \in Organizations, NEW p \in Organizations,
                   role[o][u] = "owner", role[p][u] = "owner"
            PROVE  o = p
        BY <2>1, <2>3, <2>4, <3>1
      <3> QED
        BY <2>1, <3>1 DEF OneApplication, JoinsOneOrganization, Owned
    <2>7. TasksNameMembers /\ NoAccessLeftBehind
      <3>1. access \in [Organizations -> SUBSET Users]
        BY <1>4 DEF TypeOK
      <3> QED
        BY <2>1, <2>2, <3>1 DEF TasksNameMembers, NoAccessLeftBehind
    <2> QED
      BY <2>5, <2>6, <2>7 DEF TeamsSound
  <1> QED
    BY <1>2, <1>3, <1>4, <1>5 DEF IInv

LEMMA Step == IInv /\ [Next]_vars => IInv'
  <1> SUFFICES ASSUME IInv, [Next]_vars
               PROVE  IInv'
    OBVIOUS
  <1>1. ASSUME NEW h \in Callers, ApplicationStep(h)
        PROVE  IInv'
    BY <1>1, ApplyStep, CreatesStep, DeleteStep, DecideStep, ResubmitsStep, BecomesOwnerStep,
       TakesBackStep, DecidesStep DEF ApplicationStep
  <1>2. ASSUME NEW h \in Callers, TeamStep(h)
        PROVE  IInv'
    BY <1>2, TeamBegins, ChangeBegins, InvitationWritten, AddsStep, UpdatesStep,
       UnassignsStep, DropsStep, LeavesStep DEF TeamStep
  <1>3. ASSUME NEW h \in Callers, InvitationStep(h)
        PROVE  IInv'
    BY <1>3, ChangeBegins, VerifyStep, InvitationWritten, AdmitsStep, LetsInStep
    DEF InvitationStep
  <1>4. ASSUME NEW h \in Callers, WorkspaceStep(h)
        PROVE  IInv'
    BY <1>4, EnsureStep, AssignStep, SeedsStep, AssignsStep DEF WorkspaceStep
  <1>5. ASSUME UNCHANGED vars
        PROVE  IInv'
    <2>1. /\ UNCHANGED Data /\ UNCHANGED <<req, calls, raced, late>>
          /\ UNCHANGED <<invited, verified, open>>
      BY <1>5 DEF vars, Data
    <2>2. TypeOK'
      BY <2>1 DEF IInv, TypeOK, Data
    <2>3. Marked' /\ TeamsSound' /\ \A h \in Callers : req'[h] \in SoundRequests'
      BY <2>1 DEF IInv, Marked, Raced, Late, TeamsSound, Data, Unfounded, BarredMarked,
         OneApplication, Owned, JoinsOneOrganization, TasksNameMembers, NoAccessLeftBehind,
         Exists, SoundRequests, Sound, Placed, AppliesAlone, JoinsAlone, UsesMembers,
         ClearsAway
    <2> QED
      BY <2>2, <2>3 DEF IInv
  <1> QED
    BY <1>1, <1>2, <1>3, <1>4, <1>5, FailsStep, LapseStep DEF Next

\* What the requests rely on holds at every step: at any number of requests that
\* overtake each other, none relies on what it read unless it is marked.
THEOREM Invariant == Spec => []IInv
  BY Start, Step, PTL DEF Spec

THEOREM TypeCorrect == Spec => []TypeOK
  <1>1. IInv => TypeOK
    BY DEF IInv
  <1> QED
    BY <1>1, Invariant, PTL

\* Nobody owns two organizations in good standing, but for applications that
\* were read at the same time (register).
THEOREM OneApplicationEach == Spec => []OneApplication
  <1>1. IInv => OneApplication
    BY DEF IInv, TeamsSound
  <1> QED
    BY <1>1, Invariant, PTL

\* Whichever way someone joins, it is one organization of somebody else, but
\* for joins that overlapped.
THEOREM OneTeamEach == Spec => []JoinsOneOrganization
  <1>1. IInv => JoinsOneOrganization
    BY DEF IInv, TeamsSound
  <1> QED
    BY <1>1, Invariant, PTL

\* No task is left with someone who was removed, but for assignments that were
\* under way.
THEOREM TasksStayOnTheTeam == Spec => []TasksNameMembers
  <1>1. IInv => TasksNameMembers
    BY DEF IInv, TeamsSound
  <1> QED
    BY <1>1, Invariant, PTL

\* No row of the workspace outlives its person's membership, but for what was
\* under way.
THEOREM RemovalClosesTheDesk == Spec => []NoAccessLeftBehind
  <1>1. IInv => NoAccessLeftBehind
    BY DEF IInv, TeamsSound
  <1> QED
    BY <1>1, Invariant, PTL
=============================================================================
