------------------------ MODULE RegistrationsProofs -------------------------
(***************************************************************************)
(* What holds of Registrations for every number of rows, handlers, owners  *)
(* and tiers, whatever the capacities.                                     *)
(***************************************************************************)
EXTENDS Registrations, SeatUsageProofs, SequenceTheorems

-----------------------------------------------------------------------------
(* Type correctness *)

LEMMA NewRowType ==
    ASSUME NEW status \in RegistrationStatus, NEW o \in Owners, NEW t \in Tiers,
           NEW n \in 1 .. MaxPerOrder, NEW stored \in BOOLEAN, NEW complete \in BOOLEAN
    PROVE  NewRow(status, o, t, n, stored, complete) \in Row
  BY DEF NewRow, Row

LEMMA InitType == Init => TypeOK
  <1> SUFFICES ASSUME Init PROVE TypeOK
    OBVIOUS
  <1>1. (CHOOSE t \in Tiers : TRUE) \in Tiers
    BY RegistrationsAssumption
  <1>2. 1 \in 1 .. MaxPerOrder
    BY SeatUsageAssumption
  <1>3. NewRow("absent", Anon, CHOOSE t \in Tiers : TRUE, 1, FALSE, FALSE) \in Row
    BY <1>1, <1>2, NewRowType DEF RegistrationStatus, Owners
  <1>4. reg \in [RegIds -> Row]
    BY <1>3 DEF Init
  <1>5. sold \in [Tiers -> Nat]
    BY SeatUsageAssumption DEF Init
  <1> QED
    BY <1>4, <1>5 DEF Init, TypeOK

\* Handlers read rows and keep what they read in records of the right kind.
LEMMA CreateType ==
    ASSUME TypeOK, NEW r \in RegIds, NEW o \in Owners, NEW t \in Tiers,
           NEW n \in 1 .. MaxPerOrder, NEW c \in BOOLEAN, Create(r, o, t, n, c),
           Occupied(reg, t) \in Nat
    PROVE  TypeOK'
  <1> DEFINE status == IF t \in FreeTiers THEN "pending_approval" ELSE "pending_payment"
             stored == t \notin FreeTiers /\ o \notin Emails
  <1>1. NewRow(status, o, t, n, stored, c) \in Row
    <2>1. status \in RegistrationStatus /\ stored \in BOOLEAN
      BY DEF RegistrationStatus
    <2> QED
      BY <2>1, NewRowType
  <1>2. reg' = [reg EXCEPT ![r] = NewRow(status, o, t, n, stored, c)]
    BY DEF Create
  <1>3. reg' \in [RegIds -> Row]
    BY <1>1, <1>2 DEF TypeOK
  <1>4. sold' \in [Tiers -> Nat]
    BY DEF Create, TypeOK
  <1> QED
    BY <1>3, <1>4 DEF Create, TypeOK

LEMMA ReleaseType ==
    ASSUME TypeOK, NEW r \in RegIds, Release(r)
    PROVE  reg' \in [RegIds -> Row] /\ sold' \in [Tiers -> Nat]
  <1>1. reg[r] \in Row
    BY DEF TypeOK
  <1>2. reg[r].tier \in Tiers /\ reg[r].seats \in Nat
    BY <1>1 DEF Row
  <1>3. Returned(r) \in Nat
    BY <1>2 DEF Returned, TypeOK
  <1>4. [reg[r] EXCEPT !.status = "cancelled", !.saved = FALSE] \in Row
    BY <1>1 DEF Row, RegistrationStatus
  <1> QED
    BY <1>2, <1>3, <1>4 DEF Release, TypeOK

LEMMA SubmitProofType ==
    ASSUME TypeOK, NEW r \in RegIds, SubmitProof(r)
    PROVE  TypeOK'
  <1> DEFINE next == IF reg[r].complete THEN "pending_approval" ELSE "proof_submitted"
  <1>1. reg[r] \in Row
    BY DEF TypeOK
  <1>2. Append(reg[r].proofs, "pending") \in Seq(ProofStatus)
    BY <1>1 DEF Row, ProofStatus
  <1>3. [reg[r] EXCEPT !.status = next, !.saved = FALSE,
                       !.proofs = Append(@, "pending")] \in Row
    BY <1>1, <1>2 DEF Row, RegistrationStatus
  <1>4. reg' \in [RegIds -> Row]
    BY <1>3 DEF SubmitProof, TypeOK
  <1>5. revived' \subseteq RegIds
    BY DEF SubmitProof, Revives, TypeOK
  <1> QED
    BY <1>4, <1>5 DEF SubmitProof, TypeOK

\* What a handler keeps is told apart by its operation.
LEMMA RequestFields ==
    ASSUME NEW q \in Requests \cup {Idle}
    PROVE  /\ q.op # "idle" => q.reg \in RegIds
           /\ q.op = "complete" => q.seen \in RegistrationStatus
           /\ q.op \in {"claim", "link"} => q.user \in Members
           /\ q.op \in {"approve", "reject"} => q.proof \in Nat
           /\ q = Idle <=> q.op = "idle"
  BY DEF Requests, Idle

LEMMA ReplyType ==
    ASSUME TypeOK, NEW h \in Handlers, Reply(h)
    PROVE  req' \in [Handlers -> Requests \cup {Idle}]
  BY DEF Reply, TypeOK

LEMMA RevivesType ==
    ASSUME TypeOK, NEW r \in RegIds, Revives(r)
    PROVE  revived' \subseteq RegIds
  BY DEF Revives, TypeOK

LEMMA ReadsType ==
    ASSUME TypeOK, NEW h \in Handlers, NEW r \in RegIds, Reads(h, r)
    PROVE  TypeOK'
  <1>1. reg[r] \in Row
    BY DEF TypeOK
  <1>2. reg[r].status \in RegistrationStatus /\ reg[r].sets \in Nat
        /\ reg[r].saved \in BOOLEAN /\ reg[r].stored \in BOOLEAN
        /\ Len(reg[r].proofs) \in Nat
    BY <1>1 DEF Row
  <1>3. CASE SaveBegin(h, r)
    BY <1>2, <1>3 DEF SaveBegin, TypeOK, Requests
  <1>4. CASE CompleteBegin(h, r)
    BY <1>2, <1>4 DEF CompleteBegin, TypeOK, Requests
  <1>5. CASE ApproveBegin(h, r)
    BY <1>2, <1>5 DEF ApproveBegin, TypeOK, Requests
  <1>6. CASE RejectBegin(h, r)
    BY <1>2, <1>6 DEF RejectBegin, TypeOK, Requests
  <1>7. ASSUME NEW u \in Members, ClaimBegin(h, r, u) \/ LinkBegin(h, r, u)
        PROVE  TypeOK'
    BY <1>7 DEF ClaimBegin, LinkBegin, TypeOK, Requests
  <1> QED
    BY <1>3, <1>4, <1>5, <1>6, <1>7 DEF Reads

LEMMA ReviewedType ==
    ASSUME TypeOK, NEW q \in Requests \cup {Idle}, q.op \in {"approve", "reject"},
           NEW status \in RegistrationStatus, NEW verdict \in ProofStatus
    PROVE  Reviewed(q, status, verdict) \in [RegIds -> Row]
  <1>1. q.reg \in RegIds
    BY RequestFields
  <1>2. reg[q.reg] \in Row /\ reg[q.reg].proofs \in Seq(ProofStatus)
    BY <1>1 DEF TypeOK, Row
  <1> DEFINE proofs == IF q.proof = 0 THEN reg[q.reg].proofs
                       ELSE [reg[q.reg].proofs EXCEPT ![q.proof] = verdict]
  <1>3. proofs \in Seq(ProofStatus)
    <2> DEFINE old == reg[q.reg].proofs
    <2>1. [old EXCEPT ![q.proof] = verdict] \in [1 .. Len(old) -> ProofStatus]
      <3>1. old \in [1 .. Len(old) -> ProofStatus]
        BY <1>2
      <3> HIDE DEF old
      <3> QED
        BY <3>1
    <2>2. \A n \in Nat : [1 .. n -> ProofStatus] \subseteq Seq(ProofStatus)
      OBVIOUS
    <2>3. Len(reg[q.reg].proofs) \in Nat
      BY <1>2
    <2> QED
      BY <1>2, <2>1, <2>2, <2>3
  <1>4. [reg[q.reg] EXCEPT !.status = status, !.proofs = proofs] \in Row
    BY <1>2, <1>3 DEF Row
  <1> QED
    BY <1>1, <1>2, <1>3, <1>4 DEF Reviewed, TypeOK, Row

LEMMA EditType ==
    ASSUME NEW row \in Row, NEW sets \in Nat, NEW status \in RegistrationStatus
    PROVE  [row EXCEPT !.complete = TRUE, !.sets = sets, !.status = status] \in Row
  BY DEF Row

LEMMA LinkedEditType ==
    ASSUME NEW row \in Row, NEW o \in Owners, NEW sets \in Nat,
           NEW status \in RegistrationStatus
    PROVE  [row EXCEPT !.owner = o, !.complete = TRUE, !.sets = sets,
                       !.status = status] \in Row
  BY DEF Row

LEMMA WritesType ==
    ASSUME TypeOK, NEW h \in Handlers, Writes(h)
    PROVE  TypeOK'
  <1> DEFINE q == req[h]
  <1>1. q \in Requests \cup {Idle}
    BY DEF TypeOK
  <1>2. ASSUME q.op # "idle"
        PROVE  q.reg \in RegIds /\ reg[q.reg] \in Row
    BY <1>1, <1>2, RequestFields DEF TypeOK
  <1>3. CASE SaveCommit(h)
    <2>1. q.reg \in RegIds /\ reg[q.reg] \in Row
      BY <1>2, <1>3 DEF SaveCommit
    <2>2. reg' \in [RegIds -> Row]
      BY <1>3, <2>1 DEF SaveCommit, TypeOK, Row
    <2> QED
      BY <1>3, <2>2, ReplyType DEF SaveCommit, TypeOK
  <1>4. CASE CompleteCommit(h)
    <2>1. q.reg \in RegIds /\ reg[q.reg] \in Row
      BY <1>2, <1>4 DEF CompleteCommit
    <2>2. Completed(q.seen, reg[q.reg].status) \in RegistrationStatus
      BY <2>1 DEF Completed, Row, RegistrationStatus
    <2>3. /\ reg[q.reg].sets + 1 \in Nat /\ reg[q.reg].sets \in Nat
          /\ reg[q.reg].owner \in Owners
      BY <2>1 DEF Row
    <2> DEFINE sets == IF q.insert THEN reg[q.reg].sets + 1 ELSE reg[q.reg].sets
    <2>4. sets \in Nat
      BY <2>3
    <2> HIDE DEF sets
    <2>5. [reg[q.reg] EXCEPT !.complete = TRUE, !.sets = sets,
              !.status = Completed(q.seen, @)] \in Row
      BY <2>1, <2>2, <2>4, EditType
    <2>6. reg' \in [RegIds -> Row]
      BY <1>4, <2>1, <2>5 DEF CompleteCommit, TypeOK, sets
    <2> QED
      BY <1>4, <2>1, <2>6, ReplyType, RevivesType DEF CompleteCommit, TypeOK
  <1>5. CASE ClaimCommit(h)
    <2>1. q.reg \in RegIds /\ reg[q.reg] \in Row /\ q.user \in Owners
      BY <1>1, <1>2, <1>5, RequestFields DEF ClaimCommit, Owners
    <2>2. [reg[q.reg] EXCEPT !.owner = q.user, !.complete = TRUE,
              !.sets = @ + 1, !.status = "pending_approval"] \in Row
      <3>1. reg[q.reg].sets + 1 \in Nat
        BY <2>1 DEF Row
      <3> QED
        BY <2>1, <3>1, LinkedEditType DEF RegistrationStatus
    <2>3. reg' \in [RegIds -> Row]
      BY <1>5, <2>1, <2>2 DEF ClaimCommit, TypeOK
    <2> QED
      BY <1>5, <2>1, <2>3, ReplyType, RevivesType DEF ClaimCommit, TypeOK
  <1>6. CASE LinkCommit(h)
    <2>1. q.reg \in RegIds /\ reg[q.reg] \in Row /\ q.user \in Owners
      BY <1>1, <1>2, <1>6, RequestFields DEF LinkCommit, Owners
    <2>2. reg' \in [RegIds -> Row]
      BY <1>6, <2>1 DEF LinkCommit, TypeOK, Row
    <2> QED
      BY <1>6, <2>1, <2>2, ReplyType DEF LinkCommit, TypeOK
  <1>7. CASE ApproveCommit(h)
    <2>1. Reviewed(q, "verified", "approved") \in [RegIds -> Row]
      BY <1>1, <1>7, ReviewedType DEF ApproveCommit, RegistrationStatus, ProofStatus
    <2> QED
      BY <1>7, <2>1, ReplyType DEF ApproveCommit, TypeOK
  <1>8. CASE RejectCommit(h)
    <2>1. Reviewed(q, "rejected", "rejected") \in [RegIds -> Row]
      BY <1>1, <1>8, ReviewedType DEF RejectCommit, RegistrationStatus, ProofStatus
    <2> QED
      BY <1>8, <2>1, ReplyType DEF RejectCommit, TypeOK
  <1>9. CASE HandlerDies(h)
    BY <1>9, ReplyType DEF HandlerDies, TypeOK
  <1> QED
    BY <1>3, <1>4, <1>5, <1>6, <1>7, <1>8, <1>9 DEF Writes

LEMMA HoldEndsType ==
    ASSUME TypeOK, NEW r \in RegIds, HoldEnds(r)
    PROVE  TypeOK'
  <1>1. CASE DeadlinePasses(r)
    <2>1. reg[r] \in Row
      BY DEF TypeOK
    <2> QED
      BY <1>1, <2>1 DEF DeadlinePasses, TypeOK, Row
  <1>2. CASE GuestCancels(r) \/ AdminReleases(r) \/ OwnerFindsExpired(r) \/ SaleEndCancels(r)
    BY <1>2, ReleaseType
       DEF GuestCancels, AdminReleases, OwnerFindsExpired, SaleEndCancels, TypeOK
  <1>3. CASE CleanupReleases(r)
    BY <1>3, ReleaseType DEF CleanupReleases, TypeOK
  <1>4. CASE CleanupFails(r)
    BY <1>4 DEF CleanupFails, TypeOK
  <1> QED
    BY <1>1, <1>2, <1>3, <1>4 DEF HoldEnds

LEMMA NextType == TypeOK /\ [Next]_vars => TypeOK'
  <1> SUFFICES ASSUME TypeOK, [Next]_vars PROVE TypeOK'
    OBVIOUS
  <1>1. ASSUME NEW r \in RegIds, Checkout(r) PROVE TypeOK'
    <2>1. ASSUME NEW o \in Owners, NEW t \in Tiers, NEW n \in 1 .. MaxPerOrder,
                 NEW c \in BOOLEAN, Create(r, o, t, n, c)
          PROVE  TypeOK'
      BY <2>1, CreateType, OccupiedType
    <2>2. CASE SubmitProof(r)
      BY <2>2, SubmitProofType
    <2>3. CASE CustomerCancels(r)
      <3>1. reg[r] \in Row /\ reg[r].tier \in Tiers /\ reg[r].seats \in Nat
        BY DEF TypeOK, Row
      <3>2. Returned(r) \in Nat
        BY <3>1 DEF Returned, TypeOK
      <3>3. [reg[r] EXCEPT !.status = "cancelled"] \in Row
        BY <3>1 DEF Row, RegistrationStatus
      <3> QED
        BY <2>3, <3>1, <3>2, <3>3 DEF CustomerCancels, TypeOK
    <2> QED
      BY <1>1, <2>1, <2>2, <2>3 DEF Checkout
  <1>2. ASSUME NEW r \in RegIds, HoldEnds(r) PROVE TypeOK'
    BY <1>2, HoldEndsType
  <1>3. ASSUME NEW t \in Tiers, SaleEnds(t) PROVE TypeOK'
    BY <1>3 DEF SaleEnds, TypeOK
  <1>4. CASE CleanupScan
    BY <1>4 DEF CleanupScan, Expired, TypeOK
  <1>5. ASSUME NEW h \in Handlers, NEW r \in RegIds, Reads(h, r) PROVE TypeOK'
    BY <1>5, ReadsType
  <1>6. ASSUME NEW h \in Handlers, Writes(h) PROVE TypeOK'
    BY <1>6, WritesType
  <1>7. CASE UNCHANGED vars
    BY <1>7 DEF vars, TypeOK
  <1> QED
    BY <1>1, <1>2, <1>3, <1>4, <1>5, <1>6, <1>7 DEF Next

\* Every state is well typed; in particular the stored soldQuantity never goes
\* below zero, although a rejected registration that is cancelled gives its
\* seats back a second time.
THEOREM TypeCorrect == Spec => []TypeOK
  BY InitType, NextType, PTL DEF Spec

-----------------------------------------------------------------------------
(* What a step does to the rows: it inserts one, or changes one that keeps  *)
(* its tier and its seats, or none.                                         *)

Untouched(r) == \A q \in RegIds \ {r} : reg'[q] = reg[q]

Active(row) == row.status \in ACTIVE_REGISTRATION_STATUSES

\* A verified row that is paid for has an approved proof.
Approved(row) ==
    row.tier \in FreeTiers \/ \E i \in DOMAIN row.proofs : row.proofs[i] = "approved"

\* createImpl inserts row r: what its guards established.
Taken(r) ==
    /\ Untouched(r)
    /\ reg[r].status = "absent" /\ reg'[r].status \in {"pending_payment", "pending_approval"}
    /\ reg'[r].proofs = <<>>
    /\ reg'[r].tier \in Tiers /\ reg'[r].seats \in 1 .. MaxPerOrder
    /\ reg'[r].owner # Anon => ~HasActive(reg'[r].owner, r)
    /\ Occupied(reg, reg'[r].tier) + reg'[r].seats <= Capacity[reg'[r].tier]
    /\ req' = req /\ revived' = revived /\ linked' = linked

\* Any other step on row r.
Kept(r) ==
    /\ Untouched(r)
    /\ reg[r].status # "absent" /\ reg'[r].status # "absent"
    /\ reg'[r].tier = reg[r].tier /\ reg'[r].seats = reg[r].seats
    /\ reg'[r].owner = reg[r].owner \/ r \in linked'
    /\ Active(reg'[r]) => Active(reg[r]) \/ r \in revived'
    /\ Len(reg[r].proofs) <= Len(reg'[r].proofs)
    /\ reg'[r].status = "pending_payment" =>
          reg[r].status = "pending_payment" /\ reg'[r].proofs = reg[r].proofs
    /\ reg'[r].status = "verified" =>
          \/ reg[r].status = "verified" /\ reg'[r].proofs = reg[r].proofs
          \/ Approved(reg'[r])
    /\ revived \subseteq revived' /\ linked \subseteq linked'

NoRow == reg' = reg /\ revived' = revived /\ linked' = linked

LEMMA CreateTakes ==
    ASSUME TypeOK, NEW r \in RegIds, NEW o \in Owners, NEW t \in Tiers,
           NEW n \in 1 .. MaxPerOrder, NEW c \in BOOLEAN, Create(r, o, t, n, c)
    PROVE  Taken(r)
  <1> DEFINE row == reg'[r]
  <1>1. row = NewRow(IF t \in FreeTiers THEN "pending_approval" ELSE "pending_payment",
                     o, t, n, t \notin FreeTiers /\ o \notin Emails, c)
    BY DEF Create, TypeOK
  <1>2. /\ row.status \in {"pending_payment", "pending_approval"} /\ row.proofs = <<>>
        /\ row.tier = t /\ row.seats = n /\ row.owner = o
    BY <1>1 DEF NewRow
  <1>3. Untouched(r) /\ reg[r].status = "absent"
    BY DEF Create, NextId, Untouched, TypeOK
  <1> QED
    BY <1>2, <1>3 DEF Taken, Create

LEMMA ReleaseKeeps ==
    ASSUME TypeOK, NEW r \in RegIds, Releasable(r), Release(r),
           revived' = revived, linked' = linked
    PROVE  Kept(r)
  BY DEF Releasable, Release, Kept, Untouched, Active, ACTIVE_REGISTRATION_STATUSES,
         TypeOK, Row

LEMMA CheckoutStep ==
    ASSUME TypeOK, NEW r \in RegIds, Checkout(r)
    PROVE  Taken(r) \/ Kept(r)
  <1>1. ASSUME NEW o \in Owners, NEW t \in Tiers, NEW n \in 1 .. MaxPerOrder,
               NEW c \in BOOLEAN, Create(r, o, t, n, c)
        PROVE  Taken(r)
    BY <1>1, CreateTakes
  <1>2. CASE SubmitProof(r)
    <2>1. reg[r] \in Row /\ reg[r].proofs \in Seq(ProofStatus)
      BY DEF TypeOK, Row
    <2>2. Len(Append(reg[r].proofs, "pending")) = Len(reg[r].proofs) + 1
          /\ Len(reg[r].proofs) \in Nat
      BY <2>1
    <2>3. /\ reg'[r].status \in {"pending_approval", "proof_submitted"}
          /\ reg'[r].tier = reg[r].tier /\ reg'[r].seats = reg[r].seats
          /\ reg'[r].owner = reg[r].owner
          /\ reg'[r].proofs = Append(reg[r].proofs, "pending")
          /\ Untouched(r)
      BY <1>2, <2>1 DEF SubmitProof, Untouched, TypeOK, Row
    <2> QED
      BY <1>2, <2>2, <2>3
         DEF SubmitProof, Kept, Revives, Active, Inactive, ACTIVE_REGISTRATION_STATUSES
  <1>3. CASE CustomerCancels(r)
    <2>1. reg[r] \in Row /\ Len(reg[r].proofs) \in Nat
      BY DEF TypeOK, Row
    <2>2. /\ reg'[r] = [reg[r] EXCEPT !.status = "cancelled"]
          /\ Untouched(r)
      BY <1>3 DEF CustomerCancels, Untouched, TypeOK
    <2> QED
      BY <1>3, <2>1, <2>2 DEF CustomerCancels, Cancellable, Kept, Active,
                              ACTIVE_REGISTRATION_STATUSES, Row
  <1> QED
    BY <1>1, <1>2, <1>3 DEF Checkout

LEMMA HoldEndsStep ==
    ASSUME TypeOK, NEW r \in RegIds, HoldEnds(r)
    PROVE  NoRow \/ Kept(r)
  <1>1. CASE DeadlinePasses(r)
    <2>1. reg[r] \in Row /\ Len(reg[r].proofs) \in Nat
      BY DEF TypeOK, Row
    <2>2. /\ reg'[r] = [reg[r] EXCEPT !.hold = "passed"]
          /\ Untouched(r)
      BY <1>1 DEF DeadlinePasses, Untouched, TypeOK
    <2> QED
      BY <1>1, <2>1, <2>2 DEF DeadlinePasses, Kept, Active, Row
  <1>2. CASE GuestCancels(r) \/ AdminReleases(r) \/ OwnerFindsExpired(r) \/ SaleEndCancels(r)
    BY <1>2, ReleaseKeeps
       DEF GuestCancels, AdminReleases, OwnerFindsExpired, SaleEndCancels
  <1>3. CASE CleanupReleases(r)
    BY <1>3, ReleaseKeeps DEF CleanupReleases, NoRow
  <1>4. CASE CleanupFails(r)
    BY <1>4 DEF CleanupFails, NoRow
  <1> QED
    BY <1>1, <1>2, <1>3, <1>4 DEF HoldEnds

\* Overwriting an element leaves a sequence's length as it is.
LEMMA OverwriteLength ==
    ASSUME NEW S, NEW seq \in Seq(S), NEW i \in Nat, NEW e \in S
    PROVE  Len([seq EXCEPT ![i] = e]) = Len(seq)
  <1>1. seq \in [1 .. Len(seq) -> S] /\ Len(seq) \in Nat
    OBVIOUS
  <1>2. DOMAIN [seq EXCEPT ![i] = e] = 1 .. Len(seq)
    BY <1>1
  <1>3. [seq EXCEPT ![i] = e] \in [1 .. Len(seq) -> S]
    BY <1>1
  <1>4. \A n \in Nat : [1 .. n -> S] \subseteq Seq(S)
    OBVIOUS
  <1>5. [seq EXCEPT ![i] = e] \in Seq(S)
    BY <1>1, <1>3, <1>4
  <1> QED
    BY <1>1, <1>2, <1>5, LenProperties

LEMMA ReviewKeeps ==
    ASSUME TypeOK, NEW q \in Requests \cup {Idle}, q.op \in {"approve", "reject"},
           NEW status, NEW verdict, <<status, verdict>> \in
               {<<"verified", "approved">>, <<"rejected", "rejected">>},
           status = "verified" =>
               /\ q.proof <= Len(reg[q.reg].proofs)
               /\ q.proof # 0 \/ reg[q.reg].tier \in FreeTiers,
           StillUnderReview(q.reg), reg' = Reviewed(q, status, verdict),
           revived' = revived, linked' = linked
    PROVE  Kept(q.reg) /\ reg'[q.reg].status = status
  <1> DEFINE r == q.reg
  <1>1. r \in RegIds /\ reg[r] \in Row /\ q.proof \in Nat
    BY RequestFields DEF TypeOK
  <1>2. reg[r].proofs \in Seq(ProofStatus) /\ Len(reg[r].proofs) \in Nat
    BY <1>1 DEF Row
  <1>3. /\ reg'[r].status = status
        /\ reg'[r].tier = reg[r].tier /\ reg'[r].seats = reg[r].seats
        /\ reg'[r].owner = reg[r].owner
        /\ reg'[r].proofs = IF q.proof = 0 THEN reg[r].proofs
                            ELSE [reg[r].proofs EXCEPT ![q.proof] = verdict]
        /\ Untouched(r)
    BY <1>1 DEF Reviewed, Untouched, TypeOK, Row
  <1>4. Len(reg'[r].proofs) = Len(reg[r].proofs)
    BY <1>1, <1>2, <1>3, OverwriteLength DEF ProofStatus
  <1>5. ASSUME status = "verified", reg[r].tier \notin FreeTiers
        PROVE  q.proof \in DOMAIN reg'[r].proofs /\ reg'[r].proofs[q.proof] = "approved"
    BY <1>1, <1>2, <1>3, <1>5
  <1>6. status \in {"verified", "rejected"}
    OBVIOUS
  <1>7. Active(reg[r]) /\ reg[r].status # "absent"
    BY DEF StillUnderReview, UnderReview, Active, ACTIVE_REGISTRATION_STATUSES
  <1> QED
    BY <1>2, <1>3, <1>4, <1>5, <1>6, <1>7 DEF Kept, Approved

LEMMA WritesStep ==
    ASSUME TypeOK, HandlersKnowTheirRow, NEW h \in Handlers, Writes(h)
    PROVE  NoRow \/ \E r \in RegIds : Kept(r)
  <1> DEFINE q == req[h]
             r == req[h].reg
  <1>1. q \in Requests \cup {Idle}
    BY DEF TypeOK
  <1>2. ASSUME q.op # "idle"
        PROVE  /\ r \in RegIds /\ reg[r] \in Row /\ Len(reg[r].proofs) \in Nat
               /\ reg[r].status # "absent"
    BY <1>1, <1>2, RequestFields DEF TypeOK, HandlersKnowTheirRow, Row
  <1>3. CASE SaveCommit(h)
    <2>1. r \in RegIds /\ reg[r] \in Row /\ Len(reg[r].proofs) \in Nat
          /\ reg[r].status # "absent"
      BY <1>2, <1>3 DEF SaveCommit
    <2> DEFINE hold == IF q.extend THEN "running" ELSE reg[r].hold
    <2>2. \/ reg' = reg
          \/ reg' = [reg EXCEPT ![r] = [@ EXCEPT !.saved = TRUE, !.hold = hold]]
      BY <1>3, <2>1 DEF SaveCommit, TypeOK
    <2> HIDE DEF hold
    <2>3. reg' = reg \/ /\ reg'[r].status = reg[r].status
                        /\ reg'[r].tier = reg[r].tier /\ reg'[r].seats = reg[r].seats
                        /\ reg'[r].owner = reg[r].owner
                        /\ reg'[r].proofs = reg[r].proofs
                        /\ Untouched(r)
      <3>1. CASE reg' = [reg EXCEPT ![r] = [@ EXCEPT !.saved = TRUE, !.hold = hold]]
        BY <2>1, <3>1 DEF Untouched, TypeOK, Row
      <3> QED
        BY <2>2, <3>1
    <2>4. revived' = revived /\ linked' = linked
      BY <1>3 DEF SaveCommit
    <2>5. NoRow \/ Kept(r)
      BY <2>1, <2>3, <2>4 DEF NoRow, Kept, Active
    <2> QED
      BY <2>1, <2>5
  <1>4. CASE CompleteCommit(h)
    <2>1. r \in RegIds /\ reg[r] \in Row /\ Len(reg[r].proofs) \in Nat
          /\ reg[r].status # "absent"
      BY <1>2, <1>4 DEF CompleteCommit
    <2> DEFINE sets == IF q.insert THEN reg[r].sets + 1 ELSE reg[r].sets
               status == Completed(q.seen, reg[r].status)
    <2>5. reg' = [reg EXCEPT ![r] = [@ EXCEPT !.complete = TRUE, !.sets = sets,
                                              !.status = status]]
      BY <1>4, <2>1 DEF CompleteCommit, TypeOK
    <2> HIDE DEF sets, status
    <2>6. /\ reg'[r].status = status
          /\ reg'[r].tier = reg[r].tier /\ reg'[r].seats = reg[r].seats
          /\ reg'[r].owner = reg[r].owner
          /\ reg'[r].proofs = reg[r].proofs
          /\ Untouched(r)
      BY <2>1, <2>5 DEF Untouched, TypeOK, Row
    <2>2. reg'[r].status = Completed(q.seen, reg[r].status)
      BY <2>6 DEF status
    <2>3. reg[r].status \in RegistrationStatus
      BY <2>1 DEF Row
    <2>4. Active(reg'[r]) => Active(reg[r]) \/ r \in revived'
      BY <1>4, <2>1, <2>3 DEF CompleteCommit, Revives, Active, Inactive,
                              ACTIVE_REGISTRATION_STATUSES, RegistrationStatus
    <2>7. revived \subseteq revived' /\ linked \subseteq linked'
      BY <1>4 DEF CompleteCommit, Revives
    <2>8. Kept(r)
      BY <2>1, <2>2, <2>4, <2>6, <2>7 DEF Completed, Kept
    <2> QED
      BY <2>1, <2>8
  <1>5. CASE ClaimCommit(h)
    <2>1. r \in RegIds /\ reg[r] \in Row /\ Len(reg[r].proofs) \in Nat
          /\ reg[r].status # "absent"
      BY <1>2, <1>5 DEF ClaimCommit
    <2> DEFINE sets == reg[r].sets + 1
    <2>5. reg' = [reg EXCEPT ![r] = [@ EXCEPT !.owner = q.user, !.complete = TRUE,
                                              !.sets = sets, !.status = "pending_approval"]]
      BY <1>5, <2>1 DEF ClaimCommit, TypeOK
    <2> HIDE DEF sets
    <2>2. /\ reg'[r].status = "pending_approval"
          /\ reg'[r].tier = reg[r].tier /\ reg'[r].seats = reg[r].seats
          /\ reg'[r].proofs = reg[r].proofs
          /\ Untouched(r)
      BY <2>1, <2>5 DEF Untouched, TypeOK, Row
    <2>3. reg[r].status \in RegistrationStatus
      BY <2>1 DEF Row
    <2>4. Active(reg'[r]) => Active(reg[r]) \/ r \in revived'
      BY <1>5, <2>1, <2>3 DEF ClaimCommit, Revives, Active, Inactive,
                              ACTIVE_REGISTRATION_STATUSES, RegistrationStatus
    <2>6. revived \subseteq revived' /\ linked \subseteq linked' /\ r \in linked'
      BY <1>5 DEF ClaimCommit, Revives
    <2>7. Kept(r)
      BY <2>1, <2>2, <2>4, <2>6 DEF Kept
    <2> QED
      BY <2>1, <2>7
  <1>6. CASE LinkCommit(h)
    <2>1. r \in RegIds /\ reg[r] \in Row /\ Len(reg[r].proofs) \in Nat
          /\ reg[r].status # "absent"
      BY <1>2, <1>6 DEF LinkCommit
    <2>2. /\ reg'[r].status = reg[r].status
          /\ reg'[r].tier = reg[r].tier /\ reg'[r].seats = reg[r].seats
          /\ reg'[r].proofs = reg[r].proofs
          /\ Untouched(r)
      BY <1>6, <2>1 DEF LinkCommit, Untouched, TypeOK, Row
    <2> QED
      BY <1>6, <2>1, <2>2 DEF LinkCommit, Kept, Active
  <1>7. CASE ApproveCommit(h)
    <2>1. /\ r \in RegIds
          /\ q.proof <= Len(reg[q.reg].proofs)
          /\ q.proof # 0 \/ reg[q.reg].tier \in FreeTiers
      BY <1>2, <1>7 DEF ApproveCommit, HandlersKnowTheirRow
    <2>2. CASE StillUnderReview(r)
      <3>1. Kept(q.reg)
        BY <1>1, <1>7, <2>1, <2>2, ReviewKeeps DEF ApproveCommit
      <3> QED
        BY <2>1, <3>1
    <2> QED
      BY <1>7, <2>2 DEF ApproveCommit, NoRow
  <1>8. CASE RejectCommit(h)
    <2>1. r \in RegIds
      BY <1>2, <1>8 DEF RejectCommit
    <2>2. CASE StillUnderReview(r)
      <3>1. Kept(q.reg)
        BY <1>1, <1>8, <2>2, ReviewKeeps DEF RejectCommit
      <3> QED
        BY <2>1, <3>1
    <2> QED
      BY <1>8, <2>2 DEF RejectCommit, NoRow
  <1>9. CASE HandlerDies(h)
    BY <1>9 DEF HandlerDies, NoRow
  <1> QED
    BY <1>3, <1>4, <1>5, <1>6, <1>7, <1>8, <1>9 DEF Writes

LEMMA ReadsStep ==
    ASSUME NEW h \in Handlers, NEW r \in RegIds, Reads(h, r)
    PROVE  NoRow
  BY DEF Reads, SaveBegin, CompleteBegin, ApproveBegin, RejectBegin, ClaimBegin,
         LinkBegin, NoRow

LEMMA StepOnRows ==
    ASSUME TypeOK, HandlersKnowTheirRow, [Next]_vars
    PROVE  NoRow \/ \E r \in RegIds : Taken(r) \/ Kept(r)
  <1>1. CASE CleanupScan \/ (\E t \in Tiers : SaleEnds(t)) \/ UNCHANGED vars
    BY <1>1 DEF CleanupScan, SaleEnds, vars, NoRow
  <1> QED
    BY <1>1, CheckoutStep, HoldEndsStep, ReadsStep, WritesStep DEF Next

-----------------------------------------------------------------------------
(* The inductive invariant: the safety properties, and what the handlers in *)
(* flight may rely on.                                                      *)

IInv == /\ TypeOK
        /\ HandlersKnowTheirRow
        /\ PendingHasNoProof
        /\ OneCheckedActive
        /\ FreshSeatsWithinCapacity
        /\ VerifiedHasApprovedProof

LEMMA InitIInv == Init => IInv
  <1> SUFFICES ASSUME Init PROVE IInv
    OBVIOUS
  <1>1. TypeOK
    BY InitType
  <1>2. \A r \in RegIds : reg[r].status = "absent"
    BY DEF Init, NewRow
  <1>3. \A h \in Handlers : req[h].op = "idle"
    BY DEF Init, Idle
  <1>4. FreshSeatsWithinCapacity
    <2> SUFFICES ASSUME NEW t \in Tiers
                 PROVE  Cardinality(SeatUnits(reg, RegIds \ revived,
                            ACTIVE_REGISTRATION_STATUSES, t)) + Issued[t] <= Capacity[t]
      BY DEF FreshSeatsWithinCapacity
    <2>1. SeatUnits(reg, RegIds \ revived, ACTIVE_REGISTRATION_STATUSES, t) = {}
      BY <1>2 DEF SeatUnits, ACTIVE_REGISTRATION_STATUSES
    <2>2. Cardinality({}) = 0
      BY FS_EmptySet
    <2>3. Issued[t] \in Nat /\ Issued[t] <= Capacity[t]
      BY SeatUsageAssumption, RegistrationsAssumption
    <2> QED
      BY <2>1, <2>2, <2>3
  <1> QED
    BY <1>1, <1>2, <1>3, <1>4
       DEF IInv, HandlersKnowTheirRow, PendingHasNoProof, OneCheckedActive,
           VerifiedHasApprovedProof, ACTIVE_REGISTRATION_STATUSES

\* A handler either keeps what it has read, drops it, or has just read its row.
JustRead(q) ==
    /\ q.reg \in RegIds /\ reg[q.reg].status # "absent"
    /\ q.op = "approve" => /\ q.proof = Len(reg[q.reg].proofs)
                           /\ q.proof # 0 \/ reg[q.reg].tier \in FreeTiers

LEMMA HandlerStep ==
    ASSUME TypeOK, [Next]_vars, NEW h \in Handlers
    PROVE  req'[h] = req[h] \/ req'[h] = Idle \/ (NoRow /\ JustRead(req'[h]))
  <1>1. ASSUME NEW g \in Handlers, NEW r \in RegIds, Reads(g, r)
        PROVE  req'[h] = req[h] \/ (NoRow /\ JustRead(req'[h]))
    <2>1. CASE g # h
      BY <1>1, <2>1 DEF Reads, SaveBegin, CompleteBegin, ApproveBegin, RejectBegin,
                        ClaimBegin, LinkBegin, TypeOK
    <2>2. CASE g = h
      <3>0. Len(reg[r].proofs) \in Nat /\ (reg[r].proofs # <<>> => Len(reg[r].proofs) # 0)
        <4>1. reg[r].proofs \in Seq(ProofStatus)
          BY DEF TypeOK, Row
        <4> QED
          BY <4>1
      <3>1. CASE ApproveBegin(g, r)
        BY <2>2, <3>0, <3>1 DEF ApproveBegin, NoRow, JustRead, TypeOK, UnderReview
      <3>2. CASE SaveBegin(g, r) \/ CompleteBegin(g, r) \/ RejectBegin(g, r)
        BY <2>2, <3>2 DEF SaveBegin, CompleteBegin, Completable, RejectBegin, NoRow,
                          JustRead, TypeOK, UnderReview
      <3>3. ASSUME NEW u \in Members, ClaimBegin(g, r, u) \/ LinkBegin(g, r, u)
            PROVE  NoRow /\ JustRead(req'[h])
        BY <2>2, <3>3 DEF ClaimBegin, LinkBegin, NoRow, JustRead, TypeOK
      <3> QED
        BY <1>1, <3>1, <3>2, <3>3 DEF Reads
    <2> QED
      BY <2>1, <2>2
  <1>2. ASSUME NEW g \in Handlers, Writes(g)
        PROVE  req'[h] = req[h] \/ req'[h] = Idle
    BY <1>2 DEF Writes, SaveCommit, CompleteCommit, ClaimCommit, LinkCommit,
                ApproveCommit, RejectCommit, HandlerDies, Reply, TypeOK
  <1>3. ASSUME NEW r \in RegIds, Checkout(r) \/ HoldEnds(r)
        PROVE  req' = req
    BY <1>3 DEF Checkout, HoldEnds, Create, SubmitProof, CustomerCancels, DeadlinePasses,
                GuestCancels, AdminReleases, OwnerFindsExpired, SaleEndCancels,
                CleanupReleases, CleanupFails
  <1>4. CASE CleanupScan \/ (\E t \in Tiers : SaleEnds(t)) \/ UNCHANGED vars
    BY <1>4 DEF CleanupScan, SaleEnds, vars
  <1> QED
    BY <1>1, <1>2, <1>3, <1>4 DEF Next

LEMMA KnowledgeStep ==
    ASSUME TypeOK, TypeOK', HandlersKnowTheirRow, [Next]_vars
    PROVE  HandlersKnowTheirRow'
  <1> SUFFICES ASSUME NEW h \in Handlers
               PROVE  LET q == req'[h] IN
                      /\ q.op # "idle" => reg'[q.reg].status # "absent"
                      /\ q.op = "approve" =>
                            /\ q.proof <= Len(reg'[q.reg].proofs)
                            /\ q.proof # 0 \/ reg'[q.reg].tier \in FreeTiers
    BY DEF HandlersKnowTheirRow
  <1> DEFINE q == req[h]
  <1>1. CASE req'[h] = Idle
    BY <1>1 DEF Idle
  <1>2. CASE NoRow /\ JustRead(req'[h])
    <2>1. Len(reg[req'[h].reg].proofs) \in Nat
      BY <1>2 DEF JustRead, TypeOK, Row
    <2> QED
      BY <1>2, <2>1 DEF NoRow, JustRead
  <1>3. CASE req'[h] = q /\ q.op # "idle"
    <2>1. /\ q \in Requests \cup {Idle} /\ q.reg \in RegIds
          /\ reg[q.reg].status # "absent"
          /\ Len(reg[q.reg].proofs) \in Nat /\ Len(reg'[q.reg].proofs) \in Nat
      BY <1>3, RequestFields DEF TypeOK, HandlersKnowTheirRow, Row
    <2>2. /\ q.op = "approve" => q.proof \in Nat
      BY <2>1, RequestFields
    <2>3. /\ reg'[q.reg].status # "absent" /\ reg'[q.reg].tier = reg[q.reg].tier
          /\ Len(reg[q.reg].proofs) <= Len(reg'[q.reg].proofs)
      <3>1. CASE NoRow
        BY <2>1, <3>1 DEF NoRow
      <3>2. ASSUME NEW r \in RegIds, Taken(r) \/ Kept(r)
            PROVE  /\ reg'[q.reg].status # "absent" /\ reg'[q.reg].tier = reg[q.reg].tier
                   /\ Len(reg[q.reg].proofs) <= Len(reg'[q.reg].proofs)
        BY <2>1, <3>2 DEF Taken, Kept, Untouched
      <3>3. NoRow \/ \E r \in RegIds : Taken(r) \/ Kept(r)
        BY StepOnRows
      <3> QED
        BY <3>1, <3>2, <3>3, Zenon
    <2>4. q.op = "approve" => /\ q.proof <= Len(reg[q.reg].proofs)
                              /\ q.proof # 0 \/ reg[q.reg].tier \in FreeTiers
      BY DEF HandlersKnowTheirRow
    <2>5. q.op = "approve" => q.proof <= Len(reg'[q.reg].proofs)
      BY <2>1, <2>2, <2>3, <2>4
    <2> QED
      BY <1>3, <2>3, <2>4, <2>5
  <1>4. CASE req'[h] = q /\ q.op = "idle"
    BY <1>4
  <1> QED
    BY <1>1, <1>2, <1>3, <1>4, HandlerStep

LEMMA ProofsStep ==
    ASSUME PendingHasNoProof, VerifiedHasApprovedProof,
           NoRow \/ \E r \in RegIds : Taken(r) \/ Kept(r)
    PROVE  PendingHasNoProof' /\ VerifiedHasApprovedProof'
  <1>1. CASE NoRow
    BY <1>1 DEF NoRow, PendingHasNoProof, VerifiedHasApprovedProof
  <1>2. ASSUME NEW r \in RegIds, Taken(r)
        PROVE  PendingHasNoProof' /\ VerifiedHasApprovedProof'
    BY <1>2 DEF Taken, Untouched, PendingHasNoProof, VerifiedHasApprovedProof
  <1>3. ASSUME NEW r \in RegIds, Kept(r)
        PROVE  PendingHasNoProof' /\ VerifiedHasApprovedProof'
    BY <1>3 DEF Kept, Untouched, Approved, PendingHasNoProof, VerifiedHasApprovedProof
  <1> QED
    BY <1>1, <1>2, <1>3

LEMMA OneCheckedStep ==
    ASSUME OneCheckedActive, NoRow \/ \E r \in RegIds : Taken(r) \/ Kept(r)
    PROVE  OneCheckedActive'
  <1>1. CASE NoRow
    BY <1>1 DEF NoRow, OneCheckedActive
  <1>2. ASSUME NEW r \in RegIds, Taken(r) PROVE OneCheckedActive'
    BY <1>2 DEF Taken, Untouched, OneCheckedActive, HasActive
  <1>3. ASSUME NEW r \in RegIds, Kept(r) PROVE OneCheckedActive'
    BY <1>3 DEF Kept, Untouched, OneCheckedActive, Active
  <1> QED
    BY <1>1, <1>2, <1>3

LEMMA FreshSeatsStep ==
    ASSUME TypeOK, TypeOK', FreshSeatsWithinCapacity,
           NoRow \/ \E r \in RegIds : Taken(r) \/ Kept(r)
    PROVE  FreshSeatsWithinCapacity'
  <1> SUFFICES ASSUME NEW t \in Tiers
               PROVE  Cardinality(SeatUnits(reg', RegIds \ revived',
                          ACTIVE_REGISTRATION_STATUSES, t)) + Issued[t] <= Capacity[t]
    BY DEF FreshSeatsWithinCapacity
  <1> DEFINE fresh == SeatUnits(reg, RegIds \ revived, ACTIVE_REGISTRATION_STATUSES, t)
             then == SeatUnits(reg', RegIds \ revived', ACTIVE_REGISTRATION_STATUSES, t)
             all == SeatUnits(reg, RegIds, ACTIVE_REGISTRATION_STATUSES, t)
  <1>1. /\ IsFiniteSet(fresh) /\ Cardinality(fresh) \in Nat
        /\ IsFiniteSet(all) /\ Cardinality(all) \in Nat
        /\ IsFiniteSet(then) /\ Cardinality(then) \in Nat
        /\ Issued[t] \in Nat /\ Capacity[t] \in Nat
    BY SeatUnitsFinite, SeatUsageAssumption, RegistrationsAssumption
  <1>2. Cardinality(fresh) + Issued[t] <= Capacity[t]
    BY DEF FreshSeatsWithinCapacity
  <1>3. ASSUME then \subseteq fresh
        PROVE  Cardinality(then) + Issued[t] <= Capacity[t]
    <2>1. Cardinality(then) <= Cardinality(fresh)
      BY <1>1, <1>3, FewerUnits
    <2> HIDE DEF then, fresh
    <2> QED
      BY <1>1, <1>2, <2>1
  <1>4. CASE NoRow
    BY <1>3, <1>4 DEF NoRow
  <1>5. ASSUME NEW r \in RegIds, Kept(r)
        PROVE  then \subseteq fresh
    BY <1>5 DEF Kept, Untouched, Active, SeatUnits
  <1>6. ASSUME NEW r \in RegIds, Taken(r), reg'[r].tier # t
        PROVE  then \subseteq fresh
    BY <1>6 DEF Taken, Untouched, SeatUnits
  <1>7. ASSUME NEW r \in RegIds, Taken(r), reg'[r].tier = t
        PROVE  Cardinality(then) + Issued[t] <= Capacity[t]
    <2> DEFINE n == reg'[r].seats
    <2>1. n \in Nat
      BY <1>7 DEF TypeOK, Row
    <2>2. then \subseteq all \cup ({r} \X (1 .. n))
      BY <1>7, <2>1, SeatUsageAssumption DEF Taken, Untouched, SeatUnits
    <2>3. Cardinality(then) <= Cardinality(all) + n
      BY <1>1, <2>1, <2>2, OneMoreRow
    <2>4. Cardinality(all) + Issued[t] + n <= Capacity[t]
      BY <1>7 DEF Taken, Occupied, Seats
    <2> HIDE DEF then, all, n
    <2> QED
      BY <1>1, <2>1, <2>3, <2>4
  <1> QED
    BY <1>3, <1>4, <1>5, <1>6, <1>7

LEMMA NextIInv == IInv /\ [Next]_vars => IInv'
  <1> SUFFICES ASSUME IInv, [Next]_vars PROVE IInv'
    OBVIOUS
  <1>1. TypeOK'
    BY NextType DEF IInv
  <1>2. HandlersKnowTheirRow'
    BY <1>1, KnowledgeStep DEF IInv
  <1>3. NoRow \/ \E r \in RegIds : Taken(r) \/ Kept(r)
    BY StepOnRows DEF IInv
  <1>4. PendingHasNoProof' /\ VerifiedHasApprovedProof'
    BY <1>3, ProofsStep DEF IInv
  <1>5. OneCheckedActive'
    BY <1>3, OneCheckedStep DEF IInv
  <1>6. FreshSeatsWithinCapacity'
    BY <1>1, <1>3, FreshSeatsStep DEF IInv
  <1> QED
    BY <1>1, <1>2, <1>4, <1>5, <1>6 DEF IInv

\* The inductive invariant of the safety theorems below holds in every state: no
\* interleaving of createImpl, the reviews, the claims and the hold jobs leaves it.
THEOREM Invariance == Spec => []IInv
  BY InitIInv, NextIInv, PTL DEF Spec

\* Concurrent checkouts, whatever their number and however they interleave with
\* cancellations, reviews and cleanups, never give out more seats of a tier than
\* it has, among the registrations that passed createImpl's check and did not
\* come back from rejected or cancelled.
THEOREM FreshSeatsFit == Spec => []FreshSeatsWithinCapacity
  <1>1. IInv => FreshSeatsWithinCapacity
    BY DEF IInv
  <1> QED
    BY <1>1, Invariance, PTL

\* The advisory lock and the duplicate guard of createImpl leave one account or
\* email with one active registration, but for revived and linked rows.
THEOREM OneActive == Spec => []OneCheckedActive
  <1>1. IInv => OneCheckedActive
    BY DEF IInv
  <1> QED
    BY <1>1, Invariance, PTL

\* An unpaid hold has no payment proof, so releasing one loses none.
THEOREM HoldsWithoutProof == Spec => []PendingHasNoProof
  <1>1. IInv => PendingHasNoProof
    BY DEF IInv
  <1> QED
    BY <1>1, Invariance, PTL

\* A paid registration is never verified without a proof marked approved.
THEOREM VerifiedIsPaid == Spec => []VerifiedHasApprovedProof
  <1>1. IInv => VerifiedHasApprovedProof
    BY DEF IInv
  <1> QED
    BY <1>1, Invariance, PTL

-----------------------------------------------------------------------------
(* The stored seat count: a step writes the live count with the row it      *)
(* inserts, gives the seats of a row back, or leaves both alone.            *)

Standing == ACTIVE_REGISTRATION_STATUSES \cup {"rejected"}

\* No row stops standing, and the stored count is as it was.
Stays ==
    /\ sold' = sold
    /\ \A r \in RegIds :
          reg[r].status \in Standing =>
              /\ reg'[r].status \in Standing
              /\ reg'[r].tier = reg[r].tier /\ reg'[r].seats = reg[r].seats

\* Row r stands no longer, and its seats are returned.
GivesUp(r) ==
    /\ Untouched(r)
    /\ sold' = [sold EXCEPT ![reg[r].tier] = Returned(r)]

\* Row r is inserted, and the count of createImpl is stored.
Stores(r) ==
    /\ Taken(r)
    /\ sold' = [sold EXCEPT ![reg'[r].tier] = Occupied(reg, reg'[r].tier) + reg'[r].seats]

LEMMA WritesStand ==
    ASSUME TypeOK, NEW h \in Handlers, Writes(h), NEW r \in RegIds,
           reg[r].status # "cancelled"
    PROVE  reg'[r].status # "cancelled"
  <1> DEFINE q == req[h]
  <1>1. q \in Requests \cup {Idle} /\ (q.op # "idle" => q.reg \in RegIds)
    BY RequestFields DEF TypeOK
  <1>2. CASE SaveCommit(h) \/ LinkCommit(h)
    <2>1. ASSUME SaveCommit(h) PROVE reg'[r].status = reg[r].status
      BY <1>1, <2>1 DEF SaveCommit, TypeOK, Row
    <2>2. ASSUME LinkCommit(h) PROVE reg'[r].status = reg[r].status
      BY <1>1, <2>2 DEF LinkCommit, TypeOK, Row
    <2> QED
      BY <1>2, <2>1, <2>2
  <1>3. CASE CompleteCommit(h)
    <2>1. q.reg \in RegIds
      BY <1>1, <1>3 DEF CompleteCommit
    <2>2. CASE q.reg # r
      BY <1>3, <2>1, <2>2 DEF CompleteCommit, TypeOK
    <2>3. CASE q.reg = r
      <3>1. reg'[r].status = Completed(q.seen, reg[r].status)
        BY <1>3, <2>3 DEF CompleteCommit, TypeOK, Row
      <3> QED
        BY <3>1 DEF Completed
    <2> QED
      BY <2>2, <2>3
  <1>4. CASE ClaimCommit(h)
    BY <1>1, <1>4 DEF ClaimCommit, TypeOK, Row
  <1>5. CASE ApproveCommit(h) \/ RejectCommit(h)
    BY <1>1, <1>5 DEF ApproveCommit, RejectCommit, Reviewed, TypeOK, Row
  <1>6. CASE HandlerDies(h)
    BY <1>6 DEF HandlerDies
  <1> QED
    BY <1>2, <1>3, <1>4, <1>5, <1>6 DEF Writes

\* A row that is kept and not cancelled stands.
LEMMA KeptStays ==
    ASSUME TypeOK', NEW r \in RegIds, Kept(r), sold' = sold,
           reg[r].status # "cancelled" => reg'[r].status # "cancelled"
    PROVE  Stays
  <1>1. reg'[r].status \in RegistrationStatus
    BY DEF TypeOK, Row
  <1> QED
    BY <1>1 DEF Stays, Kept, Untouched, Standing, RegistrationStatus,
                ACTIVE_REGISTRATION_STATUSES

LEMMA SoldEffects ==
    ASSUME TypeOK, TypeOK', HandlersKnowTheirRow, [Next]_vars
    PROVE  Stays \/ \E r \in RegIds : GivesUp(r) \/ Stores(r)
  <1>1. ASSUME NEW r \in RegIds, NEW o \in Owners, NEW t \in Tiers,
               NEW n \in 1 .. MaxPerOrder, NEW c \in BOOLEAN, Create(r, o, t, n, c)
        PROVE  Stores(r)
    <2>1. Taken(r)
      BY <1>1, CreateTakes
    <2>2. reg'[r].tier = t /\ reg'[r].seats = n
      BY <1>1 DEF Create, NewRow, TypeOK
    <2> QED
      BY <1>1, <2>1, <2>2 DEF Stores, Create
  <1>2. ASSUME NEW r \in RegIds, SubmitProof(r) PROVE Stays
    <2>1. Kept(r) \/ Taken(r)
      BY <1>2, CheckoutStep DEF Checkout
    <2>2. reg[r].status # "absent"
      BY <1>2 DEF SubmitProof
    <2>3. reg'[r].status \in {"pending_approval", "proof_submitted"}
      BY <1>2 DEF SubmitProof, TypeOK, Row
    <2> QED
      BY <1>2, <2>1, <2>2, <2>3, KeptStays DEF SubmitProof, Taken
  <1>3. ASSUME NEW r \in RegIds, CustomerCancels(r) PROVE GivesUp(r)
    BY <1>3 DEF CustomerCancels, GivesUp, Untouched, TypeOK
  <1>4. ASSUME NEW r \in RegIds, HoldEnds(r) PROVE Stays \/ GivesUp(r)
    <2>1. CASE DeadlinePasses(r)
      BY <2>1 DEF DeadlinePasses, Stays, TypeOK, Row
    <2>2. ASSUME Release(r) PROVE GivesUp(r)
      BY <2>2 DEF Release, GivesUp, Untouched, TypeOK
    <2>3. CASE GuestCancels(r) \/ AdminReleases(r) \/ OwnerFindsExpired(r)
               \/ SaleEndCancels(r)
      BY <2>2, <2>3 DEF GuestCancels, AdminReleases, OwnerFindsExpired, SaleEndCancels
    <2>4. CASE CleanupReleases(r)
      BY <2>2, <2>4 DEF CleanupReleases, Stays
    <2>5. CASE CleanupFails(r)
      BY <2>5 DEF CleanupFails, Stays
    <2> QED
      BY <1>4, <2>1, <2>3, <2>4, <2>5 DEF HoldEnds
  <1>5. ASSUME NEW h \in Handlers, Writes(h) PROVE Stays
    <2>1. sold' = sold
      BY <1>5 DEF Writes, SaveCommit, CompleteCommit, ClaimCommit, LinkCommit,
                  ApproveCommit, RejectCommit, HandlerDies
    <2>2. NoRow \/ \E r \in RegIds : Kept(r)
      BY <1>5, WritesStep
    <2>3. ASSUME NEW r \in RegIds, Kept(r) PROVE Stays
      BY <1>5, <2>1, <2>3, KeptStays, WritesStand
    <2> QED
      BY <2>1, <2>2, <2>3 DEF NoRow, Stays
  <1>6. ASSUME NEW h \in Handlers, NEW r \in RegIds, Reads(h, r) PROVE Stays
    BY <1>6 DEF Reads, SaveBegin, CompleteBegin, ApproveBegin, RejectBegin, ClaimBegin,
                LinkBegin, Stays
  <1>7. CASE CleanupScan \/ (\E t \in Tiers : SaleEnds(t)) \/ UNCHANGED vars
    BY <1>7 DEF CleanupScan, SaleEnds, vars, Stays
  <1> QED
    BY <1>1, <1>2, <1>3, <1>4, <1>5, <1>6, <1>7 DEF Next, Checkout

LEMMA SoldStep ==
    ASSUME TypeOK, TypeOK', StoredNeverOverstates,
           Stays \/ \E r \in RegIds : GivesUp(r) \/ Stores(r)
    PROVE  StoredNeverOverstates'
  <1> SUFFICES ASSUME NEW t \in Tiers
               PROVE  sold'[t] <= Cardinality(SeatUnits(reg', RegIds, Standing, t)) + Issued[t]
    BY DEF StoredNeverOverstates, Seats, Standing
  <1> DEFINE was == SeatUnits(reg, RegIds, Standing, t)
             now == SeatUnits(reg', RegIds, Standing, t)
             active == SeatUnits(reg, RegIds, ACTIVE_REGISTRATION_STATUSES, t)
  <1>1. /\ IsFiniteSet(was) /\ Cardinality(was) \in Nat
        /\ IsFiniteSet(now) /\ Cardinality(now) \in Nat
        /\ IsFiniteSet(active) /\ Cardinality(active) \in Nat
        /\ Issued[t] \in Nat /\ sold[t] \in Nat /\ sold'[t] \in Nat
    BY SeatUnitsFinite, SeatUsageAssumption DEF TypeOK
  <1>2. sold[t] <= Cardinality(was) + Issued[t]
    BY DEF StoredNeverOverstates, Seats, Standing
  <1>3. ASSUME was \subseteq now, sold'[t] = sold[t]
        PROVE  sold'[t] <= Cardinality(now) + Issued[t]
    <2>1. Cardinality(was) <= Cardinality(now)
      BY <1>1, <1>3, FewerUnits
    <2> HIDE DEF was, now
    <2> QED
      BY <1>1, <1>2, <1>3, <2>1
  <1>4. CASE Stays
    <2>1. was \subseteq now
      BY <1>4 DEF Stays, SeatUnits
    <2> QED
      BY <1>3, <1>4, <2>1 DEF Stays
  <1>5. ASSUME NEW r \in RegIds, GivesUp(r)
        PROVE  sold'[t] <= Cardinality(now) + Issued[t]
    <2> DEFINE n == reg[r].seats
    <2>1. reg[r] \in Row /\ reg[r].tier \in Tiers /\ n \in Nat
      BY DEF TypeOK, Row
    <2>2. CASE reg[r].tier # t
      <3>1. was \subseteq now
        BY <1>5, <2>2 DEF GivesUp, Untouched, SeatUnits
      <3>2. sold'[t] = sold[t]
        BY <1>5, <2>2 DEF GivesUp, TypeOK
      <3> QED
        BY <1>3, <3>1, <3>2
    <2>3. CASE reg[r].tier = t
      <3>1. was \subseteq now \cup ({r} \X (1 .. n))
        BY <1>5, <2>1 DEF GivesUp, Untouched, SeatUnits
      <3>2. Cardinality(was) <= Cardinality(now) + n
        BY <1>1, <2>1, <3>1, OneMoreRow
      <3>3. sold'[t] = IF sold[t] > n THEN sold[t] - n ELSE 0
        BY <1>5, <2>1, <2>3 DEF GivesUp, Returned, TypeOK
      <3> HIDE DEF was, now, n
      <3> QED
        BY <1>1, <1>2, <2>1, <3>2, <3>3
    <2> QED
      BY <2>2, <2>3
  <1>6. ASSUME NEW r \in RegIds, Stores(r)
        PROVE  sold'[t] <= Cardinality(now) + Issued[t]
    <2> DEFINE n == reg'[r].seats
    <2>1. /\ reg'[r] \in Row /\ reg'[r].tier \in Tiers /\ n \in 1 .. MaxPerOrder /\ n \in Nat
          /\ reg[r].status = "absent" /\ reg'[r].status \in ACTIVE_REGISTRATION_STATUSES
      BY <1>6, SeatUsageAssumption DEF TypeOK, Row, Stores, Taken, ACTIVE_REGISTRATION_STATUSES
    <2>2. CASE reg'[r].tier # t
      <3>1. was \subseteq now
        BY <1>6, <2>1, <2>2 DEF Stores, Taken, Untouched, SeatUnits, Standing,
                               ACTIVE_REGISTRATION_STATUSES
      <3>2. sold'[t] = sold[t]
        BY <1>6, <2>2 DEF Stores, TypeOK
      <3> QED
        BY <1>3, <3>1, <3>2
    <2>3. CASE reg'[r].tier = t
      <3>1. active \subseteq now
        BY <1>6, <2>1 DEF Stores, Taken, Untouched, SeatUnits, Standing,
                          ACTIVE_REGISTRATION_STATUSES
      <3>2. {r} \X (1 .. n) \subseteq now
        BY <2>1, <2>3, SeatUsageAssumption DEF SeatUnits, Standing
      <3>3. active \cap ({r} \X (1 .. n)) = {}
        BY <2>1 DEF SeatUnits, ACTIVE_REGISTRATION_STATUSES
      <3>4. Cardinality(active) + n <= Cardinality(now)
        BY <1>1, <2>1, <3>1, <3>2, <3>3, RowBesides
      <3>5. sold'[t] = Cardinality(active) + Issued[t] + n
        BY <1>6, <2>3 DEF Stores, Occupied, Seats, TypeOK
      <3> HIDE DEF active, now, n
      <3> QED
        BY <1>1, <2>1, <3>4, <3>5
    <2> QED
      BY <2>2, <2>3
  <1> QED
    BY <1>4, <1>5, <1>6

\* soldQuantity, from which the order flow sells, never counts a seat that no
\* active or rejected registration and no issued ticket has.
THEOREM NoSeatIsLost == Spec => []StoredNeverOverstates
  <1>1. Init => StoredNeverOverstates
    <2> SUFFICES ASSUME Init, NEW t \in Tiers
                 PROVE  sold[t] <= Cardinality(SeatUnits(reg, RegIds, Standing, t)) + Issued[t]
      BY DEF StoredNeverOverstates, Seats, Standing
    <2>1. Cardinality(SeatUnits(reg, RegIds, Standing, t)) \in Nat /\ Issued[t] \in Nat
      BY SeatUnitsFinite, SeatUsageAssumption
    <2> QED
      BY <2>1 DEF Init
  <1>2. IInv /\ IInv' /\ StoredNeverOverstates /\ [Next]_vars => StoredNeverOverstates'
    BY SoldEffects, SoldStep DEF IInv
  <1> QED
    BY <1>1, <1>2, Invariance, PTL DEF Spec

-----------------------------------------------------------------------------
(* Action properties: what a step may never do to a row's status. *)

StaleEdit(r) == \E h \in Handlers : /\ req[h] # Idle /\ req'[h] = Idle
                                    /\ req[h].op \in {"complete", "claim"}
                                    /\ req[h].reg = r

StatusMove(r) ==
    LET from == reg[r].status
        to == reg'[r].status
    IN  \/ from = to
        \/ from = "absent" /\ to # "cancelled"
        \/ Releasable(r)
        \/ reg[r].owner \in Members /\ from \in Cancellable
        \/ from \in {"pending_payment", "rejected"} /\ to # "cancelled"
        \/ from \in UnderReview /\ to # "cancelled"
        \/ StaleEdit(r) /\ to = "pending_approval"

LEMMA WritesMove ==
    ASSUME TypeOK, NEW h \in Handlers, Writes(h), NEW r \in RegIds
    PROVE  StatusMove(r)
  <1> DEFINE q == req[h]
  <1>1. q \in Requests \cup {Idle} /\ (q.op # "idle" => q.reg \in RegIds /\ q # Idle)
    BY RequestFields DEF TypeOK
  <1>2. CASE SaveCommit(h)
    <2>1. reg'[r].status = reg[r].status
      BY <1>1, <1>2 DEF SaveCommit, TypeOK, Row
    <2> QED
      BY <2>1 DEF StatusMove
  <1>3. CASE CompleteCommit(h)
    <2>1. q.reg \in RegIds /\ q # Idle /\ req'[h] = Idle
      BY <1>1, <1>3 DEF CompleteCommit, Reply, TypeOK
    <2>2. CASE q.reg # r
      BY <1>3, <2>1, <2>2 DEF CompleteCommit, StatusMove, TypeOK
    <2>3. CASE q.reg = r
      <3>1. reg'[r].status = Completed(q.seen, reg[r].status)
        BY <1>3, <2>3 DEF CompleteCommit, TypeOK, Row
      <3>2. StaleEdit(r)
        BY <1>3, <2>1, <2>3 DEF CompleteCommit, StaleEdit
      <3> QED
        BY <3>1, <3>2 DEF StatusMove, Completed
    <2> QED
      BY <2>2, <2>3
  <1>4. CASE ClaimCommit(h)
    <2>1. q.reg \in RegIds /\ q # Idle /\ req'[h] = Idle
      BY <1>1, <1>4 DEF ClaimCommit, Reply, TypeOK
    <2>2. CASE q.reg # r
      BY <1>4, <2>1, <2>2 DEF ClaimCommit, StatusMove, TypeOK
    <2>3. CASE q.reg = r
      <3>1. reg'[r].status = "pending_approval"
        BY <1>4, <2>3 DEF ClaimCommit, TypeOK, Row
      <3>2. StaleEdit(r)
        BY <1>4, <2>1, <2>3 DEF ClaimCommit, StaleEdit
      <3> QED
        BY <3>1, <3>2 DEF StatusMove
    <2> QED
      BY <2>2, <2>3
  <1>5. CASE LinkCommit(h)
    <2>1. reg'[r].status = reg[r].status
      BY <1>1, <1>5 DEF LinkCommit, TypeOK, Row
    <2> QED
      BY <2>1 DEF StatusMove
  <1>6. CASE ApproveCommit(h) \/ RejectCommit(h)
    <2>1. q.reg \in RegIds
      BY <1>1, <1>6 DEF ApproveCommit, RejectCommit
    <2>2. CASE q.reg # r \/ ~StillUnderReview(q.reg)
      BY <1>6, <2>1, <2>2 DEF ApproveCommit, RejectCommit, Reviewed, StatusMove, TypeOK
    <2>3. CASE q.reg = r /\ StillUnderReview(q.reg)
      <3>1. reg'[r].status \in {"verified", "rejected"}
        BY <1>6, <2>1, <2>3 DEF ApproveCommit, RejectCommit, Reviewed, TypeOK, Row
      <3> QED
        BY <2>3, <3>1 DEF StatusMove, StillUnderReview
    <2> QED
      BY <2>2, <2>3
  <1>7. CASE HandlerDies(h)
    BY <1>7 DEF HandlerDies, StatusMove
  <1> QED
    BY <1>2, <1>3, <1>4, <1>5, <1>6, <1>7 DEF Writes

LEMMA ReleaseMove ==
    ASSUME TypeOK, NEW p \in RegIds, Releasable(p), Release(p), NEW r \in RegIds
    PROVE  StatusMove(r)
  BY DEF Release, StatusMove, TypeOK

LEMMA StatusStep ==
    ASSUME TypeOK, [Next]_vars, NEW r \in RegIds
    PROVE  StatusMove(r)
  <1>1. ASSUME NEW p \in RegIds, NEW o \in Owners, NEW t \in Tiers,
               NEW n \in 1 .. MaxPerOrder, NEW c \in BOOLEAN, Create(p, o, t, n, c)
        PROVE  StatusMove(r)
    <2>1. Taken(p)
      BY <1>1, CreateTakes
    <2> QED
      BY <2>1 DEF Taken, Untouched, StatusMove
  <1>2. ASSUME NEW p \in RegIds, SubmitProof(p)
        PROVE  StatusMove(r)
    <2>1. CASE p = r
      <3>1. reg'[r].status \in {"pending_approval", "proof_submitted"}
        BY <1>2, <2>1 DEF SubmitProof, TypeOK, Row
      <3> QED
        BY <1>2, <2>1, <3>1 DEF SubmitProof, StatusMove
    <2>2. CASE p # r
      BY <1>2, <2>2 DEF SubmitProof, StatusMove, TypeOK
    <2> QED
      BY <2>1, <2>2
  <1>3. ASSUME NEW p \in RegIds, CustomerCancels(p)
        PROVE  StatusMove(r)
    BY <1>3 DEF CustomerCancels, StatusMove, TypeOK
  <1>4. ASSUME NEW p \in RegIds, HoldEnds(p)
        PROVE  StatusMove(r)
    <2>1. CASE DeadlinePasses(p)
      <3>1. reg'[r].status = reg[r].status
        BY <2>1 DEF DeadlinePasses, TypeOK, Row
      <3> QED
        BY <3>1 DEF StatusMove
    <2>2. CASE GuestCancels(p) \/ AdminReleases(p) \/ OwnerFindsExpired(p)
               \/ SaleEndCancels(p) \/ CleanupReleases(p)
      BY <2>2, ReleaseMove
         DEF GuestCancels, AdminReleases, OwnerFindsExpired, SaleEndCancels,
             CleanupReleases, StatusMove
    <2>3. CASE CleanupFails(p)
      BY <2>3 DEF CleanupFails, StatusMove
    <2> QED
      BY <1>4, <2>1, <2>2, <2>3 DEF HoldEnds
  <1>5. ASSUME NEW h \in Handlers, Writes(h) PROVE StatusMove(r)
    BY <1>5, WritesMove
  <1>6. CASE reg' = reg
    BY <1>6 DEF StatusMove
  <1>7. ASSUME NEW h \in Handlers, NEW p \in RegIds, Reads(h, p) PROVE reg' = reg
    BY <1>7, ReadsStep DEF NoRow
  <1>8. CASE CleanupScan \/ (\E t \in Tiers : SaleEnds(t)) \/ UNCHANGED vars
    BY <1>6, <1>8 DEF CleanupScan, SaleEnds, vars
  <1> QED
    BY <1>1, <1>2, <1>3, <1>4, <1>5, <1>6, <1>7, <1>8 DEF Next, Checkout

\* Of all the ways to change a status, only the two unconditional writes can
\* take a registration out of verified or cancelled, and only when they were
\* under way.
THEOREM FinalStatesStand == Spec => FinalExceptForStaleEdits
  <1>1. TypeOK /\ [Next]_vars =>
          \A r \in RegIds :
              /\ reg[r].status \in {"cancelled", "verified"}
              /\ reg'[r].status # reg[r].status
              => \E h \in Handlers : /\ req[h] # Idle /\ req'[h] = Idle
                                     /\ req[h].op \in {"complete", "claim"}
                                     /\ req[h].reg = r
    BY StatusStep DEF StatusMove, StaleEdit, Releasable, Cancellable, UnderReview
  <1> QED
    BY <1>1, TypeCorrect, PTL DEF Spec, FinalExceptForStaleEdits

\* The cleanup cancels only what is past its deadline when it cancels it.
THEOREM CleanupRechecks == Spec => CleanupCancelsOnlyExpired
  <1>1. TypeOK /\ [Next]_vars =>
          \A r \in cleanup \ cleanup' :
              reg'[r].status # reg[r].status => reg[r].hold = "passed"
    <2> SUFFICES ASSUME TypeOK, [Next]_vars, NEW r \in cleanup \ cleanup',
                        reg'[r].status # reg[r].status
                 PROVE  reg[r].hold = "passed"
      OBVIOUS
    <2>1. \E p \in RegIds : CleanupReleases(p)
      <3>1. ASSUME NEW p \in RegIds, Checkout(p) PROVE cleanup' = cleanup
        BY <3>1 DEF Checkout, Create, SubmitProof, CustomerCancels
      <3>2. ASSUME NEW p \in RegIds, HoldEnds(p), ~CleanupReleases(p)
            PROVE  cleanup' = cleanup \/ reg' = reg
        BY <3>2 DEF HoldEnds, DeadlinePasses, GuestCancels, AdminReleases,
                    OwnerFindsExpired, SaleEndCancels, CleanupFails
      <3>3. ASSUME NEW h \in Handlers, NEW p \in RegIds, Reads(h, p)
            PROVE  cleanup' = cleanup
        BY <3>3 DEF Reads, SaveBegin, CompleteBegin, ApproveBegin, RejectBegin,
                    ClaimBegin, LinkBegin
      <3>4. ASSUME NEW h \in Handlers, Writes(h) PROVE cleanup' = cleanup
        BY <3>4 DEF Writes, SaveCommit, CompleteCommit, ClaimCommit, LinkCommit,
                    ApproveCommit, RejectCommit, HandlerDies
      <3>5. CASE CleanupScan
        BY <3>5 DEF CleanupScan
      <3>6. CASE UNCHANGED vars \/ \E t \in Tiers : SaleEnds(t)
        BY <3>6 DEF vars, SaleEnds
      <3> QED
        BY <3>1, <3>2, <3>3, <3>4, <3>5, <3>6 DEF Next
    <2>2. CleanupReleases(r)
      BY <2>1 DEF CleanupReleases
    <2> QED
      BY <2>2 DEF CleanupReleases, StillExpired
  <1> QED
    BY <1>1, TypeCorrect, PTL DEF Spec, CleanupCancelsOnlyExpired

=============================================================================
