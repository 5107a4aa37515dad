--------------------------- MODULE Verdict_proof ----------------------------
(***************************************************************************)
(* What a verdict of verifyChain commits to, of rows whatever they are:    *)
(* theorems about the operator Valid of AuditChain.                        *)
(***************************************************************************)
EXTENDS AuditChain, SequenceTheorems, WellFoundedInduction, TLAPS

(* The order of the naturals. *)
Below == {pair \in Nat \X Nat : pair[1] < pair[2]}

LEMMA BelowWellFounded == IsWellFoundedOn(Below, Nat)
<1>1. Below = OpToRel(<, Nat)
  BY Zenon DEF Below, OpToRel
<1> QED
  BY <1>1, NatLessThanWellFounded

(* Induction, in the only form in which it can be cited: a set of numbers has *)
(* a least one.                                                               *)
LEMMA Least ==
  ASSUME NEW T \in SUBSET Nat, T # {}
  PROVE  \E x \in T : \A y \in T : x <= y
<1>1. \A x, y \in Nat : y < x => <<y, x>> \in Below
  BY DEF Below
<1>2. PICK x \in T : \A y \in T : <<y, x>> \notin Below
  BY BelowWellFounded, WFMin
<1>3. \A y \in T : x <= y
  <2> SUFFICES ASSUME NEW y \in T PROVE ~(y < x)
    OBVIOUS
  <2>1. x \in Nat /\ y \in Nat
    OBVIOUS
  <2> QED
    BY <1>1, <1>2, <2>1
<1> QED
  BY <1>3

-----------------------------------------------------------------------------
(* Rows of trails that verify.                                             *)

LEMMA ValidRow ==
  ASSUME NEW R, NEW s \in Seq(R), Valid(s), NEW i \in DOMAIN s
  PROVE  /\ s[i].chainHash = <<s[i].tenantId, s[i].entry, Previous(s, i)>>
         /\ s[i].chainHash # NoHash
         /\ i > 1 => s[i].previousHash = s[i-1].chainHash
<1>1. \A j \in DOMAIN s : /\ s[j].chainHash = <<s[j].tenantId, s[j].entry, Previous(s, j)>>
                          /\ Previous(s, j) = NoHash \/ s[j].previousHash = Previous(s, j)
  BY DEF Valid, Broken, Hash
<1>2. \A t, e, h : <<t, e, h>> # NoHash
  BY DEF NoHash
<1>3. \A j \in DOMAIN s : s[j].chainHash # NoHash
  BY <1>1, <1>2
<1>4. ASSUME i > 1 PROVE s[i].previousHash = s[i-1].chainHash
  <2>1. i - 1 \in DOMAIN s /\ Previous(s, i) = s[i-1].chainHash
    BY <1>4 DEF Previous
  <2> QED
    BY <1>1, <1>3, <2>1
<1> QED
  BY <1>1, <1>3, <1>4

(* Two rows of the same content and place, as far as the hash covers them. *)
SameRow(r, q) == r.tenantId = q.tenantId /\ r.entry = q.entry /\ r.chainHash = q.chainHash

(* Equal digests in two trails that verify have equal digests before them. *)
LEMMA EqualBefore ==
  ASSUME NEW R, NEW s \in Seq(R), NEW n \in Seq(R), Valid(s), Valid(n),
         NEW i \in DOMAIN s, NEW j \in DOMAIN n, s[i].chainHash = n[j].chainHash
  PROVE  /\ SameRow(s[i], n[j])
         /\ i > 1 <=> j > 1
         /\ i > 1 => /\ s[i-1].chainHash = n[j-1].chainHash
                     /\ s[i].previousHash = n[j].previousHash
<1>1. /\ s[i].tenantId = n[j].tenantId /\ s[i].entry = n[j].entry
      /\ Previous(s, i) = Previous(n, j)
  BY ValidRow
<1>2. /\ i > 1 => i - 1 \in DOMAIN s /\ Previous(s, i) = s[i-1].chainHash
      /\ ~(i > 1) => Previous(s, i) = NoHash
  BY DEF Previous
<1>3. /\ j > 1 => j - 1 \in DOMAIN n /\ Previous(n, j) = n[j-1].chainHash
      /\ ~(j > 1) => Previous(n, j) = NoHash
  BY DEF Previous
<1>4. /\ \A k \in DOMAIN s : s[k].chainHash # NoHash
      /\ \A k \in DOMAIN n : n[k].chainHash # NoHash
  BY ValidRow
<1>5. i > 1 <=> j > 1
  BY <1>1, <1>2, <1>3, <1>4
<1>6. i > 1 => s[i].previousHash = s[i-1].chainHash /\ n[j].previousHash = n[j-1].chainHash
  BY <1>5, ValidRow
<1> QED
  BY <1>1, <1>2, <1>3, <1>5, <1>6 DEF SameRow

(* Places at the same distance k from i and j, and the next ones. *)
LEMMA OneLater ==
  ASSUME NEW i \in Nat, NEW j \in Nat, NEW a \in 1..i, NEW b \in 1..j, NEW k,
         i - a = k, j - b = k, ~(a = i /\ b = j)
  PROVE  /\ k - 1 \in Nat /\ ~(k <= k - 1)
         /\ a + 1 \in 1..i /\ b + 1 \in 1..j /\ i - (a + 1) = k - 1 /\ j - (b + 1) = k - 1
         /\ a + 1 > 1 /\ (a + 1) - 1 = a /\ (b + 1) - 1 = b
<1>1. k \in Nat /\ k # 0
  OBVIOUS
<1>2. a < i /\ b < j
  BY <1>1
<1> QED
  BY <1>1, <1>2

LEMMA FirstMeets ==
  ASSUME NEW i \in Nat, i >= 1, NEW j \in Nat, i < j
  PROVE  \E b \in 2..j : i - 1 = j - b
<1>1. j - i + 1 \in 2..j /\ i - 1 = j - (j - i + 1)
  OBVIOUS
<1> QED
  BY <1>1

(* A digest commits verifyChain to everything up to its row: two trails that *)
(* verify and share a digest have it at the same place and agree, row by row,*)
(* on tenant, content and predecessor up to there.  (They may differ in the  *)
(* time stamps, which are not hashed, and in the previousHash of the first   *)
(* row, which is not compared.)  So whoever kept a digest of a trail that    *)
(* verified would notice any later change before it.                         *)
THEOREM DigestCommits ==
  ASSUME NEW R, NEW s \in Seq(R), NEW n \in Seq(R), Valid(s), Valid(n),
         NEW i \in DOMAIN s, NEW j \in DOMAIN n, s[i].chainHash = n[j].chainHash
  PROVE  /\ i = j
         /\ \A k \in 1..i : /\ SameRow(s[k], n[k])
                            /\ k > 1 => s[k].previousHash = n[k].previousHash
<1> DEFINE Apart == {k \in Nat : \E a \in 1..i, b \in 1..j :
                       i - a = k /\ j - b = k /\ s[a].chainHash # n[b].chainHash}
<1>0. /\ i \in 1..Len(s) /\ j \in 1..Len(n) /\ Len(s) \in Nat /\ Len(n) \in Nat
      /\ DOMAIN s = 1..Len(s) /\ DOMAIN n = 1..Len(n)
  OBVIOUS
<1>back. \A x \in DOMAIN s, y \in DOMAIN n : s[x].chainHash = n[y].chainHash =>
           /\ x > 1 <=> y > 1
           /\ x > 1 => s[x-1].chainHash = n[y-1].chainHash
  BY EqualBefore
<1>1. Apart = {}
  <2> SUFFICES ASSUME Apart # {} PROVE FALSE
    OBVIOUS
  <2>1. PICK k \in Apart : \A l \in Apart : k <= l
    <3>1. Apart \in SUBSET Nat
      OBVIOUS
    <3> HIDE DEF Apart
    <3> QED
      BY <3>1, Least
  <2>2. PICK a \in 1..i, b \in 1..j :
          i - a = k /\ j - b = k /\ s[a].chainHash # n[b].chainHash
    BY <2>1
  <2> HIDE DEF Apart
  <2>3. i \in Nat /\ j \in Nat /\ ~(a = i /\ b = j)
    BY <1>0, <2>2
  <2>4. /\ k - 1 \in Nat /\ ~(k <= k - 1)
        /\ a + 1 \in 1..i /\ b + 1 \in 1..j /\ i - (a + 1) = k - 1 /\ j - (b + 1) = k - 1
        /\ a + 1 > 1 /\ (a + 1) - 1 = a /\ (b + 1) - 1 = b
    BY <2>2, <2>3, OneLater, SMTT(30)
  <2>5. a + 1 \in DOMAIN s /\ b + 1 \in DOMAIN n
    BY <1>0, <2>4
  <2>6. k - 1 \notin Apart
    BY <2>1, <2>4
  <2>7. s[a + 1].chainHash = n[b + 1].chainHash
    BY <2>4, <2>6 DEF Apart
  <2>8. s[a].chainHash = n[b].chainHash
    <3>1. s[(a + 1) - 1].chainHash = n[(b + 1) - 1].chainHash
      BY <1>back, <2>4, <2>5, <2>7
    <3> QED
      BY <2>4, <3>1
  <2> QED
    BY <2>2, <2>8
<1>2. ASSUME NEW a \in 1..i, NEW b \in 1..j, i - a = j - b
      PROVE  s[a].chainHash = n[b].chainHash
  <2>1. i - a \in Nat
    BY <1>0
  <2> QED
    BY <1>1, <1>2, <2>1
<1> HIDE DEF Apart
<1>3. i = j
  <2>1. ASSUME i < j PROVE FALSE
    <3>1. PICK b \in 2..j : i - 1 = j - b
      BY <1>0, <2>1, FirstMeets, SMTT(30)
    <3>2. 1 \in 1..i /\ b \in 1..j /\ 1 \in DOMAIN s /\ b \in DOMAIN n /\ b > 1 /\ ~(1 > 1)
      BY <1>0
    <3>3. s[1].chainHash = n[b].chainHash
      BY <1>2, <3>1, <3>2
    <3> QED
      BY <1>back, <3>2, <3>3
  <2>2. ASSUME j < i PROVE FALSE
    <3>1. PICK a \in 2..i : j - 1 = i - a
      BY <1>0, <2>2, FirstMeets, SMTT(30)
    <3>2. 1 \in 1..j /\ a \in 1..i /\ 1 \in DOMAIN n /\ a \in DOMAIN s /\ a > 1 /\ ~(1 > 1)
      BY <1>0
    <3>3. s[a].chainHash = n[1].chainHash
      BY <1>2, <3>1, <3>2
    <3> QED
      BY <1>back, <3>2, <3>3
  <2> QED
    BY <1>0, <2>1, <2>2
<1>4. ASSUME NEW k \in 1..i
      PROVE  SameRow(s[k], n[k]) /\ (k > 1 => s[k].previousHash = n[k].previousHash)
  <2>1. k \in DOMAIN s /\ k \in DOMAIN n
    BY <1>0, <1>3
  <2>2. s[k].chainHash = n[k].chainHash
    BY <1>2, <1>3
  <2> QED
    BY <2>1, <2>2, EqualBefore
<1> QED
  BY <1>3, <1>4

(* Nothing but a digest kept elsewhere tells that the newest rows are gone:  *)
(* what is left of a trail that verifies, verifies.  TamperLocated excepts   *)
(* the newest row for this reason.                                           *)
THEOREM TruncationUnnoticed ==
  ASSUME NEW R, NEW s \in Seq(R), Valid(s), NEW k \in 0..Len(s)
  PROVE  Valid(SubSeq(s, 1, k))
<1> DEFINE left == SubSeq(s, 1, k)
<1>1. left \in Seq(R) /\ Len(left) = k /\ \A i \in 1..k : left[i] = s[i]
  BY SubSeqProperties
<1>2. ASSUME NEW i \in DOMAIN left PROVE ~Broken(left, i)
  <2>1. i \in 1..k /\ i \in DOMAIN s /\ left[i] = s[i] /\ (i # 1 => left[i-1] = s[i-1])
    BY <1>1
  <2>2. Previous(left, i) = Previous(s, i)
    BY <2>1 DEF Previous
  <2> QED
    BY <2>1, <2>2 DEF Valid, Broken
<1> QED
  BY <1>2 DEF Valid
=============================================================================
