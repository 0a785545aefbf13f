----------------------------- MODULE SendProofs -----------------------------
(***************************************************************************)
(* What holds of the steps of sending that Messages takes as one: reading  *)
(* uploads of any number and size, listing what is signed for any number   *)
(* of recipients and attachments, encoding any list of chunks.             *)
(***************************************************************************)
EXTENDS LenPrefix, HmacPayload, Uploads, Integers, SequenceTheorems, WellFoundedInduction, TLAPS

-----------------------------------------------------------------------------
(* Induction, and functions defined by it.  The library's theorems on both  *)
(* speak of operators; these speak of sets and of functions.               *)

(* A set that has 0, and with a number the next, has all: otherwise the     *)
(* least number it lacks has a predecessor, which it has.                  *)
LEMMA Induction ==
  ASSUME NEW S, 0 \in S, \A n \in Nat : n \in S => n + 1 \in S
  PROVE  Nat \subseteq S
<1> DEFINE T == Nat \ S
<1> SUFFICES ASSUME T # {} PROVE FALSE
  OBVIOUS
<1>1. PICK x \in T : \A y \in T : ~(<<y, x>> \in OpToRel(<, Nat))
  <2> HIDE DEF T
  <2>1. T \subseteq Nat
    BY DEF T
  <2> QED
    BY <2>1, NatLessThanWellFounded, WFMin
<1>2. x \in Nat /\ x # 0
  OBVIOUS
<1>3. x - 1 \in Nat /\ x - 1 < x
  BY <1>2
<1>4. <<x - 1, x>> \in OpToRel(<, Nat)
  BY <1>2, <1>3 DEF OpToRel
<1>5. x - 1 \in S
  BY <1>1, <1>3, <1>4
<1>6. (x - 1) + 1 \in S
  BY <1>3, <1>5
<1>7. (x - 1) + 1 = x
  BY <1>2
<1> QED
  BY <1>6, <1>7

(* The same up to a limit. *)
LEMMA InductionUpTo ==
  ASSUME NEW m \in Nat, NEW S, 0 \in S, \A i \in 1..m : i - 1 \in S => i \in S
  PROVE  0..m \subseteq S
<1> DEFINE T == {n \in Nat : n <= m => n \in S}
<1>1. 0 \in T
  OBVIOUS
<1>2. ASSUME NEW n \in Nat, n \in T PROVE n + 1 \in T
  <2> SUFFICES ASSUME n + 1 <= m PROVE n + 1 \in S
    OBVIOUS
  <2>1. n \in S /\ n + 1 \in 1..m /\ (n + 1) - 1 = n
    BY <1>2
  <2> QED
    BY <2>1
<1>3. Nat \subseteq T
  <2> HIDE DEF T
  <2> QED
    BY <1>1, <1>2, Induction
<1> QED
  BY <1>3

(* A function on 0..n that begins with c and goes on by `step`, and that    *)
(* there is one.                                                           *)
Steps(n, S) == [1..n -> [S -> S]]
Follows(f, n, S, c, step) ==
  f \in [0..n -> S] /\ f[0] = c /\ \A i \in 1..n : f[i] = step[i][f[i-1]]

(* The function exists: it can be continued by one more argument.           *)
LEMMA Recursion ==
  ASSUME NEW n \in Nat, NEW S, NEW c \in S, NEW step \in Steps(n, S)
  PROVE  \E f : Follows(f, n, S, c, step)
<1> USE DEF Follows, Steps
<1> DEFINE Defined(m) == \E f \in [0..m -> S] : f[0] = c /\ \A i \in 1..m : f[i] = step[i][f[i-1]]
           T == {m \in 0..n : Defined(m)}
<1>1. 0 \in T
  <2> DEFINE f == [i \in 0..0 |-> c]
  <2>1. f \in [0..0 -> S] /\ f[0] = c
    OBVIOUS
  <2>2. \A i \in 1..0 : f[i] = step[i][f[i-1]]
    OBVIOUS
  <2>3. Defined(0)
    <3> HIDE DEF f
    <3> QED
      BY <2>1, <2>2
  <2> QED
    BY <2>3
<1>2. ASSUME NEW k \in 1..n, k - 1 \in T PROVE k \in T
  <2>1. PICK f \in [0..(k-1) -> S] : f[0] = c /\ \A i \in 1..(k-1) : f[i] = step[i][f[i-1]]
    BY <1>2
  <2> DEFINE g == [i \in 0..k |-> IF i = k THEN step[k][f[k-1]] ELSE f[i]]
  <2>2. f[k-1] \in S
    BY <2>1
  <2>3. g \in [0..k -> S]
    BY <2>1, <2>2
  <2>4. g[0] = c
    BY <2>1
  <2>5. ASSUME NEW i \in 1..k PROVE g[i] = step[i][g[i-1]]
    <3>1. CASE i = k
      <4>1. i - 1 = k - 1 /\ k - 1 \in 0..k /\ k - 1 # k /\ i \in 0..k
        BY <3>1
      <4> QED
        BY <3>1, <4>1
    <3>2. CASE i # k
      <4>1. i \in 1..(k-1) /\ i - 1 \in 0..k /\ i - 1 # k /\ i \in 0..k
        BY <3>2
      <4>2. g[i - 1] = f[i - 1] /\ g[i] = f[i]
        BY <4>1, <3>2
      <4> QED
        BY <2>1, <4>1, <4>2
    <3> QED
      BY <3>1, <3>2
  <2>6. Defined(k)
    <3> HIDE DEF g
    <3> QED
      BY <2>3, <2>4, <2>5
  <2> HIDE DEF Defined
  <2> QED
    BY <2>6
<1>3. n \in T
  <2> HIDE DEF T
  <2>1. 0..n \subseteq T
    BY <1>1, <1>2, InductionUpTo
  <2> QED
    BY <2>1
<1> QED
  BY <1>3

-----------------------------------------------------------------------------
(* Uploads: sums. *)

(* What Totals computes. *)
LEMMA TotalsAre ==
  ASSUME NEW s \in Seq(Nat)
  PROVE  /\ Len(s) \in Nat
         /\ Totals(s)[0] = 0
         /\ \A i \in 1..Len(s) : Totals(s)[i] = Totals(s)[i-1] + s[i]
         /\ \A i \in 0..Len(s) : Totals(s)[i] \in Nat
         /\ Total(s) \in Nat
<1> DEFINE Sums(g) == g = [i \in 0..Len(s) |-> IF i = 0 THEN 0 ELSE g[i-1] + s[i]]
<1>1. \E g : Sums(g)
  <2> DEFINE step == [i \in 1..Len(s) |-> [t \in Nat |-> t + s[i]]]
  <2>1. step \in Steps(Len(s), Nat) /\ Len(s) \in Nat
    BY DEF Steps
  <2> HIDE DEF step
  <2>2. PICK f : Follows(f, Len(s), Nat, 0, step)
    BY <2>1, Recursion
  <2>3. ASSUME NEW i \in 1..Len(s) PROVE f[i] = f[i-1] + s[i]
    <3>1. i - 1 \in 0..Len(s)
      BY LenProperties
    <3>2. step[i][f[i-1]] = f[i-1] + s[i]
      BY <2>2, <3>1 DEF step, Follows
    <3> QED
      BY <2>2, <3>2 DEF Follows
  <2>4. Sums(f)
    <3>1. f = [i \in 0..Len(s) |-> f[i]] /\ f[0] = 0
      BY <2>2 DEF Follows
    <3>2. ASSUME NEW i \in 0..Len(s) PROVE f[i] = IF i = 0 THEN 0 ELSE f[i-1] + s[i]
      <4>1. CASE i = 0
        BY <3>1, <4>1
      <4>2. CASE i # 0
        <5>1. i \in 1..Len(s)
          BY <2>1, <4>2
        <5> QED
          BY <2>3, <4>2, <5>1
      <4> QED
        BY <4>1, <4>2
    <3> QED
      BY <3>1, <3>2
  <2> QED
    BY <2>4
<1>2. Sums(Totals(s))
  BY <1>1 DEF Totals
<1>3. Totals(s) = [i \in 0..Len(s) |-> IF i = 0 THEN 0 ELSE Totals(s)[i-1] + s[i]]
  BY <1>2, Zenon
<1> HIDE DEF Sums
<1>4. Totals(s)[0] = 0 /\ \A i \in 1..Len(s) : Totals(s)[i] = Totals(s)[i-1] + s[i]
  BY <1>3, LenProperties
<1>5. \A i \in 0..Len(s) : Totals(s)[i] \in Nat
  <2> DEFINE T == {i \in 0..Len(s) : Totals(s)[i] \in Nat}
  <2>1. 0 \in T
    BY <1>3, <1>4
  <2>2. \A i \in 1..Len(s) : i - 1 \in T => i \in T
    BY <1>4
  <2>3. 0..Len(s) \subseteq T
    <3> HIDE DEF T
    <3> QED
      BY LenProperties, <2>1, <2>2, InductionUpTo
  <2> QED
    BY <2>3
<1>6. Len(s) \in Nat /\ Len(s) \in 0..Len(s)
  BY LenProperties
<1> QED
  BY <1>4, <1>5, <1>6 DEF Total

(* A sum does not shrink when more files are added. *)
LEMMA TotalsGrow ==
  ASSUME NEW s \in Seq(Nat), NEW j \in 0..Len(s), NEW i \in 0..j
  PROVE  Totals(s)[i] <= Totals(s)[j]
<1> DEFINE T == {n \in 0..Len(s) : \A k \in 0..n : Totals(s)[k] <= Totals(s)[n]}
<1>1. Len(s) \in Nat /\ \A n \in 0..Len(s) : Totals(s)[n] \in Nat
  BY TotalsAre, LenProperties
<1>2. 0 \in T
  BY <1>1
<1>3. ASSUME NEW n \in 1..Len(s), n - 1 \in T PROVE n \in T
  <2>1. n \in 0..Len(s) /\ n - 1 \in 0..Len(s) /\ s[n] \in Nat
    BY <1>1, ElementOfSeq
  <2>2. Totals(s)[n - 1] <= Totals(s)[n] /\ Totals(s)[n - 1] \in Nat /\ Totals(s)[n] \in Nat
    <3>1. Totals(s)[n] = Totals(s)[n - 1] + s[n]
      BY TotalsAre
    <3>2. Totals(s)[n - 1] \in Nat /\ Totals(s)[n] \in Nat
      BY <1>1, <2>1
    <3> QED
      BY <2>1, <3>1, <3>2
  <2>3. ASSUME NEW k \in 0..n PROVE Totals(s)[k] <= Totals(s)[n]
    <3>1. CASE k = n
      BY <1>1, <2>1, <3>1
    <3>2. CASE k # n
      <4>1. k \in 0..(n-1) /\ k \in 0..Len(s)
        BY <1>1, <3>2
      <4>2. Totals(s)[k] <= Totals(s)[n - 1]
        BY <1>3, <4>1
      <4>3. Totals(s)[k] \in Nat
        BY <1>1, <4>1
      <4> QED
        BY <2>2, <4>2, <4>3
    <3> QED
      BY <3>1, <3>2
  <2> QED
    BY <2>1, <2>3
<1>4. 0..Len(s) \subseteq T
  <2> HIDE DEF T
  <2> QED
    BY <1>1, <1>2, <1>3, InductionUpTo
<1> QED
  BY <1>4

(* The sums of the first files are the first sums. *)
LEMMA TotalsOfPrefix ==
  ASSUME NEW s \in Seq(Nat), NEW k \in 0..Len(s), NEW p, p = SubSeq(s, 1, k)
  PROVE  /\ p \in Seq(Nat) /\ Len(p) = k
         /\ \A i \in 0..k : Totals(p)[i] = Totals(s)[i]
         /\ Total(p) = Totals(s)[k]
<1> DEFINE T == {i \in 0..k : Totals(p)[i] = Totals(s)[i]}
<1>1. /\ Len(s) \in Nat /\ p \in Seq(Nat) /\ Len(p) = k
      /\ \A i \in 1..k : p[i] = s[i]
  BY LenProperties, SubSeqProperties
<1>2. 0 \in T
  <2>1. Totals(p)[0] = 0 /\ Totals(s)[0] = 0
    BY <1>1, TotalsAre
  <2> QED
    BY <1>1, <2>1
<1>3. ASSUME NEW i \in 1..k, i - 1 \in T PROVE i \in T
  <2>1. i \in 1..Len(p) /\ i \in 1..Len(s)
    BY <1>1
  <2>2. /\ Totals(p)[i] = Totals(p)[i-1] + p[i]
        /\ Totals(s)[i] = Totals(s)[i-1] + s[i]
    BY <1>1, <2>1, TotalsAre
  <2> QED
    BY <1>1, <1>3, <2>2
<1>4. 0..k \subseteq T
  <2> HIDE DEF T
  <2>1. k \in Nat
    BY <1>1
  <2> QED
    BY <2>1, <1>2, <1>3, InductionUpTo
<1> QED
  BY <1>1, <1>4 DEF Total

(* No file is larger than the sum it is part of. *)
LEMMA PartOfTotal ==
  ASSUME NEW s \in Seq(Nat), NEW i \in 1..Len(s)
  PROVE  s[i] <= Totals(s)[i] /\ Totals(s)[i] <= Total(s)
<1>1. Len(s) \in Nat /\ i \in 0..Len(s) /\ i - 1 \in 0..Len(s) /\ s[i] \in Nat
  BY LenProperties, ElementOfSeq
<1>2. Totals(s)[i - 1] \in Nat /\ Totals(s)[i] = Totals(s)[i - 1] + s[i]
  BY <1>1, TotalsAre
<1>3. Totals(s)[i] <= Totals(s)[Len(s)]
  BY <1>1, TotalsGrow
<1> QED
  BY <1>1, <1>2, <1>3 DEF Total

-----------------------------------------------------------------------------
(* Uploads: the inductive invariant. *)

(* What has been read are the first files, and within the limit; of the     *)
(* next one no more than there is, and no more than a piece over the limit; *)
(* a copy is made of nothing that is over it; and a verdict has its reason. *)
UploadIInv ==
  /\ files \in Seq(Nat) /\ kept \in Seq(Nat)
  /\ buf \in Nat /\ chunk \in Nat /\ fresh \in Nat /\ data \in Nat
  /\ at \in {"read", "extend", "copied", "stored", "refused"}
  /\ Len(kept) <= Len(files) /\ kept = SubSeq(files, 1, Len(kept))
  /\ Total(kept) <= MaxBytes
  /\ chunk <= Piece /\ fresh <= Piece /\ buf <= MaxBytes + Piece
  /\ at \in {"read", "extend", "copied"} => buf <= MaxBytes
  /\ at \in {"extend", "copied"} => Reading
  /\ at = "copied" => data = Current
  /\ Len(kept) < Len(files) => buf + fresh <= Current
  /\ at # "extend" => fresh = 0
  /\ data # 0 => chunk = 0 /\ fresh = 0 /\ data <= MaxBytes /\ buf <= MaxBytes
  /\ at \in {"read", "extend"} => data = 0
  /\ at = "refused" => TooMany \/ Total(files) > MaxBytes
  /\ at = "stored" => ~TooMany /\ kept = files

(* Nothing has been read of the first upload.                               *)
LEMMA UploadInitIInv == UploadInit => UploadIInv
<1> SUFFICES ASSUME UploadInit PROVE UploadIInv
  OBVIOUS
<1>1. files \in Seq(Nat) /\ kept = << >> /\ kept \in Seq(Nat) /\ Len(kept) = 0 /\ Len(files) \in Nat
  BY UploadAssumption DEF UploadInit
<1>2. kept = SubSeq(files, 1, Len(kept))
  BY <1>1
<1>3. Total(kept) = 0
  BY <1>1, TotalsAre DEF Total
<1>4. Len(kept) < Len(files) => Current \in Nat
  BY <1>1 DEF Current
<1> QED
  BY <1>1, <1>2, <1>3, <1>4, UploadAssumption DEF UploadInit, UploadIInv

(* What the steps on one file rest on: the file is one of those sent, and   *)
(* part of their sum.                                                      *)
LEMMA CurrentIs ==
  ASSUME UploadIInv, Reading
  PROVE  /\ Len(kept) \in Nat /\ Len(files) \in Nat
         /\ Len(kept) + 1 \in 1..Len(files)
         /\ Current = files[Len(kept) + 1] /\ Current \in Nat
         /\ Total(files) \in Nat /\ Current <= Total(files)
         /\ Totals(files)[Len(kept) + 1] = Total(kept) + Current
         /\ Totals(files)[Len(kept) + 1] <= Total(files)
         /\ Total(kept) \in Nat
<1>1. /\ files \in Seq(Nat) /\ kept \in Seq(Nat) /\ kept = SubSeq(files, 1, Len(kept))
      /\ Len(kept) \in Nat /\ Len(files) \in Nat /\ Len(kept) < Len(files)
  BY LenProperties DEF UploadIInv, Reading
<1> DEFINE n == Len(kept) + 1
<1>2. n \in 1..Len(files) /\ n - 1 = Len(kept) /\ Len(kept) \in 0..Len(files)
  BY <1>1
<1>3. Current = files[n] /\ Current \in Nat
  BY <1>1, <1>2, ElementOfSeq DEF Current
<1>4. Total(files) \in Nat /\ Totals(files)[n] \in Nat /\ Total(kept) \in Nat
  BY <1>1, <1>2, TotalsAre DEF Total
<1>5. files[n] <= Totals(files)[n] /\ Totals(files)[n] <= Total(files)
  BY <1>1, <1>2, PartOfTotal
<1>6. Totals(files)[n] = Total(kept) + Current
  <2>1. Total(kept) = Totals(files)[Len(kept)]
    BY <1>1, <1>2, TotalsOfPrefix
  <2>2. Totals(files)[n] = Totals(files)[n - 1] + files[n]
    BY <1>1, <1>2, TotalsAre
  <2> QED
    BY <1>2, <1>3, <2>1, <2>2
<1> QED
  BY <1>1, <1>2, <1>3, <1>4, <1>5, <1>6

(* A piece is no longer than what is left of the file. *)
LEMMA ReadPieceIInv ==
  ASSUME UploadIInv, ReadPiece
  PROVE  UploadIInv'
<1>1. /\ at = "read" /\ Reading /\ buf < Current /\ at' = "extend"
      /\ fresh' = Lesser(Piece, Current - buf)
      /\ UNCHANGED <<files, kept, buf, chunk, data>>
  BY DEF ReadPiece
<1>2. Current \in Nat /\ buf \in Nat /\ buf <= MaxBytes /\ data = 0
  BY <1>1, CurrentIs DEF UploadIInv
<1>3. fresh' \in Nat /\ fresh' <= Piece /\ buf + fresh' <= Current
  BY <1>1, <1>2, UploadAssumption DEF Lesser
<1>4. Current' = Current /\ TooMany' = TooMany /\ Reading' = Reading
  BY <1>1 DEF Current, TooMany, Reading
<1> QED
  BY <1>1, <1>2, <1>3, <1>4 DEF UploadIInv

(* A file that is larger than the limit ends in a refusal that the sum of   *)
(* all files bears out.                                                    *)
LEMMA ExtendBufIInv ==
  ASSUME UploadIInv, ExtendBuf
  PROVE  UploadIInv'
<1>1. /\ at = "extend" /\ Reading /\ buf' = buf + fresh /\ chunk' = fresh /\ fresh' = 0
      /\ at' = IF buf' > MaxBytes THEN "refused" ELSE "read"
      /\ UNCHANGED <<files, kept, data>>
  BY DEF ExtendBuf, UploadIInv, TooLarge
<1>2. /\ buf \in Nat /\ fresh \in Nat /\ buf <= MaxBytes /\ fresh <= Piece /\ data = 0
      /\ Len(kept) < Len(files) /\ buf + fresh <= Current
  BY <1>1 DEF UploadIInv, Reading
<1>3. Current \in Nat /\ Total(files) \in Nat /\ Current <= Total(files)
  BY <1>1, CurrentIs
<1>4. /\ buf' \in Nat /\ buf' <= MaxBytes + Piece /\ buf' + fresh' <= Current
      /\ at' # "refused" => buf' <= MaxBytes
      /\ at' = "refused" => Total(files) > MaxBytes
  BY <1>1, <1>2, <1>3, UploadAssumption
<1>5. Current' = Current /\ TooMany' = TooMany /\ Reading' = Reading
  BY <1>1 DEF Current, TooMany, Reading
<1>6. at' \in {"read", "refused"} /\ chunk' \in Nat /\ chunk' <= Piece /\ fresh' <= Piece
  BY <1>1, <1>2, UploadAssumption
<1>7. /\ kept' \in Seq(Nat) /\ files' \in Seq(Nat) /\ Len(kept') <= Len(files')
      /\ kept' = SubSeq(files', 1, Len(kept')) /\ Total(kept') <= MaxBytes
  BY <1>1 DEF UploadIInv
<1> QED
  BY <1>1, <1>2, <1>4, <1>5, <1>6, <1>7 DEF UploadIInv

(* What is copied has been measured. *)
LEMMA CopyBufIInv ==
  ASSUME UploadIInv, CopyBuf
  PROVE  UploadIInv'
<1>1. /\ at = "read" /\ Reading /\ buf = Current /\ chunk' = 0 /\ data' = buf /\ at' = "copied"
      /\ UNCHANGED <<files, kept, buf, fresh>>
  BY DEF CopyBuf
<1>2. buf \in Nat /\ buf <= MaxBytes /\ fresh = 0
  BY <1>1 DEF UploadIInv
<1>3. Current' = Current /\ TooMany' = TooMany /\ Reading' = Reading
  BY <1>1 DEF Current, TooMany, Reading
<1> QED
  BY <1>1, <1>2, <1>3, UploadAssumption DEF UploadIInv

(* A complete file joins those kept, or is one too many bytes. *)
LEMMA KeepFileIInv ==
  ASSUME UploadIInv, KeepFile
  PROVE  UploadIInv'
<1>1. /\ files \in Seq(Nat) /\ kept \in Seq(Nat) /\ data = Current /\ data <= MaxBytes
      /\ Reading /\ Len(kept) < Len(files) /\ ~TooMany /\ chunk \in Nat /\ chunk <= Piece /\ fresh = 0
      /\ kept = SubSeq(files, 1, Len(kept)) /\ buf' = 0 /\ UNCHANGED <<files, chunk, fresh>>
      /\ data # 0 => chunk = 0
  <2>1. at = "copied" /\ Reading /\ data = Current /\ buf <= MaxBytes /\ data \in Nat
    BY DEF KeepFile, UploadIInv
  <2>2. data <= MaxBytes
    BY <2>1, UploadAssumption DEF UploadIInv
  <2> QED
    BY <2>1, <2>2 DEF KeepFile, UploadIInv, Reading
<1> DEFINE n == Len(kept) + 1
<1>2. /\ Len(kept) \in Nat /\ Len(files) \in Nat /\ n \in 1..Len(files) /\ n \in 0..Len(files)
      /\ data = files[n] /\ data \in Nat
  BY <1>1, CurrentIs
<1>3. /\ Totals(files)[n] = Total(kept) + data /\ Totals(files)[n] <= Total(files)
      /\ Total(kept) \in Nat /\ Total(files) \in Nat
  BY <1>1, CurrentIs
<1>4. CASE AllTooLarge(data)
  <2>1. at' = "refused" /\ UNCHANGED <<files, kept, data>> /\ Total(files) > MaxBytes
    BY <1>2, <1>3, <1>4, <1>1, UploadAssumption DEF KeepFile, AllTooLarge
  <2>2. Current' = Current /\ TooMany' = TooMany
    BY <2>1 DEF Current, TooMany
  <2>3. /\ kept' \in Seq(Nat) /\ files' \in Seq(Nat) /\ Len(kept') <= Len(files')
        /\ kept' = SubSeq(files', 1, Len(kept')) /\ Total(kept') <= MaxBytes
    BY <2>1 DEF UploadIInv
  <2>4. buf' \in Nat /\ buf' <= MaxBytes /\ buf' <= MaxBytes + Piece /\ buf' + fresh' <= Current'
    <3>1. Current' \in Nat /\ buf' = 0 /\ fresh' = 0
      BY <1>1, <1>2, <2>2
    <3> QED
      BY <3>1, UploadAssumption
  <2> QED
    BY <1>1, <1>2, <2>1, <2>2, <2>3, <2>4, UploadAssumption DEF UploadIInv
<1>5. CASE ~AllTooLarge(data)
  <2>1. at' = "read" /\ kept' = Append(kept, data) /\ data' = 0 /\ files' = files
    BY <1>1, <1>5 DEF KeepFile
  <2>2. kept' \in Seq(Nat) /\ Len(kept') = n
    BY <1>1, <1>2, <2>1, AppendProperties
  <2>3. kept' = SubSeq(files, 1, n)
    BY <1>1, <1>2, <2>1, SubSeqRecursiveSecond
  <2>4. Total(kept') = Totals(files)[n]
    BY <1>1, <1>2, <2>3, TotalsOfPrefix
  <2>5. Total(kept') <= MaxBytes
    BY <1>2, <1>3, <1>5, <2>4, UploadAssumption DEF AllTooLarge
  <2>6. Len(kept') < Len(files') => Current' \in Nat
    <3> SUFFICES ASSUME Len(kept') < Len(files') PROVE files[Len(kept') + 1] \in Nat
      BY <2>1 DEF Current
    <3>1. Len(kept') + 1 \in 1..Len(files)
      BY <1>2, <2>1, <2>2
    <3> QED
      BY <1>1, <3>1, ElementOfSeq
  <2> QED
    BY <1>1, <1>2, <2>1, <2>2, <2>3, <2>5, <2>6, UploadAssumption DEF UploadIInv
<1> QED
  BY <1>4, <1>5

(* All files read are all files, and send_message finds nothing to refuse. *)
LEMMA StoreFilesIInv ==
  ASSUME UploadIInv, StoreFiles
  PROVE  UploadIInv'
<1>1. /\ files \in Seq(Nat) /\ kept \in Seq(Nat) /\ Len(kept) = Len(files) /\ Len(kept) \in Nat
      /\ kept = SubSeq(files, 1, Len(kept)) /\ at = "read" /\ ~TooMany
      /\ UNCHANGED <<files, kept, buf, chunk, fresh, data>>
  BY LenProperties DEF UploadIInv, StoreFiles
<1>2. kept = files
  BY <1>1, SubSeqFull
<1>3. ASSUME NEW i \in DOMAIN kept PROVE kept[i] <= MaxBytes /\ Totals(kept)[i] <= MaxBytes
  <2>1. i \in 1..Len(kept) /\ i \in 0..Len(kept) /\ kept[i] \in Nat
    BY <1>1, ElementOfSeq, LenProperties
  <2>2. Totals(kept)[i] \in Nat /\ Total(kept) \in Nat /\ Total(kept) <= MaxBytes
    BY <1>1, <2>1, TotalsAre DEF Total, UploadIInv
  <2>3. kept[i] <= Totals(kept)[i] /\ Totals(kept)[i] <= Total(kept)
    BY <1>1, <2>1, PartOfTotal
  <2> QED
    BY <2>1, <2>2, <2>3, UploadAssumption
<1>4. at' = "stored"
  <2>1. ASSUME NEW i \in DOMAIN kept PROVE ~(kept[i] > MaxBytes \/ Totals(kept)[i] > MaxBytes)
    <3>1. i \in 0..Len(kept) /\ kept[i] \in Nat /\ Totals(kept)[i] \in Nat
      BY <1>1, ElementOfSeq, LenProperties, TotalsAre
    <3> QED
      BY <1>3, <3>1, UploadAssumption
  <2> QED
    BY <2>1 DEF StoreFiles
<1>5. Current' = Current /\ TooMany' = TooMany
  BY <1>1 DEF Current, TooMany
<1> QED
  BY <1>1, <1>2, <1>4, <1>5 DEF UploadIInv

(* Every step keeps it. *)
LEMMA UploadNextIInv == UploadIInv /\ [UploadNext]_uploadvars => UploadIInv'
<1> SUFFICES ASSUME UploadIInv, [UploadNext]_uploadvars PROVE UploadIInv'
  OBVIOUS
<1>1. CASE RefuseTooMany
  BY <1>1 DEF RefuseTooMany, UploadIInv, Current, TooMany
<1>2. CASE UNCHANGED uploadvars
  BY <1>2 DEF uploadvars, UploadIInv, Current, TooMany, Reading
<1> QED
  BY <1>1, <1>2, ReadPieceIInv, ExtendBufIInv, CopyBufIInv, KeepFileIInv, StoreFilesIInv DEF UploadNext

(* However many and large the uploads are: the buffers of a send hold at    *)
(* most twice the limit and the larger of the limit and two pieces, and a  *)
(* send is refused exactly for too many files or too many bytes, by the    *)
(* router and never only by send_message.                                  *)
THEOREM UploadTheorem == UploadSpec => []UploadLimitsHold
<1>1. UploadIInv => UploadLimitsHold
  <2> SUFFICES ASSUME UploadIInv PROVE UploadLimitsHold
    OBVIOUS
  <2>1. Total(kept) \in Nat /\ Total(files) \in Nat
    BY TotalsAre, LenProperties DEF UploadIInv, Total
  <2>2. /\ Greater(MaxBytes, 2 * Piece) \in Nat
        /\ MaxBytes <= Greater(MaxBytes, 2 * Piece) /\ 2 * Piece <= Greater(MaxBytes, 2 * Piece)
    BY UploadAssumption DEF Greater
  <2>3. MemoryCapped
    <3>1. PICK more \in Nat : more = Greater(MaxBytes, 2 * Piece) /\ MaxBytes <= more /\ 2 * Piece <= more
      BY <2>2
    <3>2. CASE data # 0
      BY <2>1, <3>1, <3>2, UploadAssumption DEF UploadIInv, MemoryCapped, Held
    <3>3. CASE data = 0
      <4>1. buf + chunk + fresh <= MaxBytes + 2 * Piece
        BY <3>3, UploadAssumption DEF UploadIInv
      <4> QED
        BY <2>1, <3>1, <3>3, <4>1, UploadAssumption DEF UploadIInv, MemoryCapped, Held
    <3> QED
      BY <3>2, <3>3
  <2>4. VerdictExact
    BY <2>1, UploadAssumption DEF UploadIInv, VerdictExact
  <2> QED
    BY <2>3, <2>4 DEF UploadLimitsHold
<1> QED
  BY <1>1, UploadInitIInv, UploadNextIInv, PTL DEF UploadSpec

-----------------------------------------------------------------------------
(* The encoding: prefixes. *)

(* A number is what it is without its last byte, and that byte. *)
LEMMA LastByteAside ==
  ASSUME NEW n \in Nat
  PROVE  /\ Without(n) \in Nat /\ LastByte(n) \in Nat
         /\ With(Without(n), LastByte(n)) = n
         /\ \A byte \in Nat : With(n, byte) \in Nat
<1>1. PICK b \in Nat \ {0} : b = Base
  BY PrefixAssumption
<1>2. n \div b \in Nat /\ n % b \in Nat /\ b * (n \div b) + (n % b) = n
  OBVIOUS
<1>3. \A byte \in Nat : b * n + byte \in Nat
  OBVIOUS
<1> QED
  BY <1>1, <1>2, <1>3 DEF Without, LastByte, With

(* What Shifted computes. *)
LEMMA ShiftedAre ==
  ASSUME NEW n \in Nat
  PROVE  /\ Shifted(n)[0] = n
         /\ \A i \in 1..Width : Shifted(n)[i] = Without(Shifted(n)[i-1])
         /\ \A i \in 0..Width : Shifted(n)[i] \in Nat
<1> DEFINE Shifts(g) == g = [i \in 0..Width |-> IF i = 0 THEN n ELSE Without(g[i-1])]
<1>w. Width \in Nat /\ Base \in Nat \ {0}
  BY PrefixAssumption
<1>1. \E g : Shifts(g)
  <2> DEFINE step == [i \in 1..Width |-> [m \in Nat |-> Without(m)]]
  <2>1. step \in Steps(Width, Nat)
    BY <1>w, LastByteAside DEF Steps
  <2> HIDE DEF step
  <2>2. PICK f : Follows(f, Width, Nat, n, step)
    BY <1>w, <2>1, Recursion
  <2>3. ASSUME NEW i \in 1..Width PROVE f[i] = Without(f[i-1])
    <3>1. i - 1 \in 0..Width
      BY <1>w
    <3>2. step[i][f[i-1]] = Without(f[i-1])
      BY <2>2, <3>1 DEF step, Follows
    <3> QED
      BY <2>2, <3>2 DEF Follows
  <2>4. Shifts(f)
    <3>1. f \in [0..Width -> Nat] /\ f[0] = n
      BY <2>2 DEF Follows
    <3>2. \A i \in 0..Width : f[i] = IF i = 0 THEN n ELSE Without(f[i-1])
      BY <1>w, <2>3, <3>1
    <3> QED
      BY <3>1, <3>2
  <2> QED
    BY <2>4
<1>2. Shifts(Shifted(n))
  BY <1>1 DEF Shifted
<1>3. Shifted(n) = [i \in 0..Width |-> IF i = 0 THEN n ELSE Without(Shifted(n)[i-1])]
  BY <1>2, Zenon
<1> HIDE DEF Shifts
<1>4. Shifted(n)[0] = n /\ \A i \in 1..Width : Shifted(n)[i] = Without(Shifted(n)[i-1])
  BY <1>w, <1>3
<1>5. \A i \in 0..Width : Shifted(n)[i] \in Nat
  <2> DEFINE T == {i \in 0..Width : Shifted(n)[i] \in Nat}
  <2>1. 0 \in T
    BY <1>w, <1>4
  <2>2. ASSUME NEW i \in 1..Width, i - 1 \in T PROVE i \in T
    <3>1. Without(Shifted(n)[i - 1]) \in Nat
      BY <2>2, LastByteAside
    <3> QED
      BY <1>w, <1>4, <3>1
  <2>3. 0..Width \subseteq T
    <3> HIDE DEF T
    <3> QED
      BY <1>w, <2>1, <2>2, InductionUpTo
  <2> QED
    BY <2>3
<1> QED
  BY <1>4, <1>5

(* A prefix has its bytes. *)
LEMMA BigEndianType ==
  ASSUME NEW n \in Nat
  PROVE  /\ BigEndian(n) \in Seq(Nat) /\ Len(BigEndian(n)) = Width
         /\ \A i \in 1..Width : BigEndian(n)[i] = LastByte(Shifted(n)[Width - i])
<1>1. Width \in Nat /\ Base \in Nat \ {0}
  BY PrefixAssumption
<1>2. \A i \in 1..Width : LastByte(Shifted(n)[Width - i]) \in Nat
  <2> SUFFICES ASSUME NEW i \in 1..Width PROVE LastByte(Shifted(n)[Width - i]) \in Nat
    OBVIOUS
  <2>1. Width - i \in 0..Width
    BY <1>1
  <2>2. Shifted(n)[Width - i] \in Nat
    BY <2>1, ShiftedAre
  <2> QED
    BY <2>2, LastByteAside
<1> QED
  BY <1>1, <1>2 DEF BigEndian

(* What Values computes. *)
LEMMA ValuesAre ==
  ASSUME NEW s \in Seq(Nat)
  PROVE  /\ Values(s)[0] = 0
         /\ \A i \in 1..Len(s) : Values(s)[i] = With(Values(s)[i-1], s[i])
         /\ Value(s) \in Nat
<1> DEFINE Reads(g) == g = [i \in 0..Len(s) |-> IF i = 0 THEN 0 ELSE With(g[i-1], s[i])]
<1>w. Len(s) \in Nat /\ Base \in Nat /\ \A i \in 1..Len(s) : s[i] \in Nat
  BY PrefixAssumption, LenProperties, ElementOfSeq
<1>1. \E g : Reads(g)
  <2> DEFINE step == [i \in 1..Len(s) |-> [v \in Nat |-> With(v, s[i])]]
  <2>1. step \in Steps(Len(s), Nat)
    BY <1>w, LastByteAside DEF Steps
  <2> HIDE DEF step
  <2>2. PICK f : Follows(f, Len(s), Nat, 0, step)
    BY <1>w, <2>1, Recursion
  <2>3. ASSUME NEW i \in 1..Len(s) PROVE f[i] = With(f[i-1], s[i])
    <3>1. i - 1 \in 0..Len(s)
      BY <1>w
    <3>2. step[i][f[i-1]] = With(f[i-1], s[i])
      BY <2>2, <3>1 DEF step, Follows
    <3> QED
      BY <2>2, <3>2 DEF Follows
  <2>4. Reads(f)
    <3>1. f \in [0..Len(s) -> Nat] /\ f[0] = 0
      BY <2>2 DEF Follows
    <3>2. \A i \in 0..Len(s) : f[i] = IF i = 0 THEN 0 ELSE With(f[i-1], s[i])
      BY <1>w, <2>3, <3>1
    <3> QED
      BY <3>1, <3>2
  <2> QED
    BY <2>4
<1>2. Reads(Values(s))
  BY <1>1 DEF Values
<1>3. Values(s) = [i \in 0..Len(s) |-> IF i = 0 THEN 0 ELSE With(Values(s)[i-1], s[i])]
  BY <1>2, Zenon
<1> HIDE DEF Reads
<1>4. Values(s)[0] = 0 /\ \A i \in 1..Len(s) : Values(s)[i] = With(Values(s)[i-1], s[i])
  BY <1>w, <1>3
<1>5. 0..Len(s) \subseteq {i \in 0..Len(s) : Values(s)[i] \in Nat}
  <2> DEFINE T == {i \in 0..Len(s) : Values(s)[i] \in Nat}
  <2>1. 0 \in T
    BY <1>w, <1>4
  <2>2. ASSUME NEW i \in 1..Len(s), i - 1 \in T PROVE i \in T
    <3>1. Values(s)[i - 1] \in Nat /\ s[i] \in Nat
      BY <1>w, <2>2
    <3>2. With(Values(s)[i - 1], s[i]) \in Nat
      BY <3>1, LastByteAside
    <3> QED
      BY <1>w, <1>4, <3>2
  <2> HIDE DEF T
  <2>3. 0..Len(s) \subseteq T
    BY <1>w, <2>1, <2>2, InductionUpTo
  <2> QED
    BY <2>3 DEF T
<1> QED
  BY <1>w, <1>4, <1>5 DEF Value

(* The reader gets the length of a chunk from its prefix: after i digits it *)
(* has what is left of the length without the others.                      *)
LEMMA PrefixSaysLength ==
  ASSUME NEW n \in Nat, Fits(n)
  PROVE  Value(BigEndian(n)) = n
<1> DEFINE d == BigEndian(n)
           T == {i \in 0..Width : Values(d)[i] = Shifted(n)[Width - i]}
<1>1. /\ Width \in Nat /\ Base \in Nat \ {0} /\ d \in Seq(Nat) /\ Len(d) = Width
  BY PrefixAssumption, BigEndianType
<1>2. 0 \in T
  BY <1>1, ValuesAre DEF Fits
<1>3. ASSUME NEW i \in 1..Width, i - 1 \in T PROVE i \in T
  <2>1. Width - i \in 0..Width /\ Width - i + 1 \in 1..Width /\ Width - (i - 1) = Width - i + 1
    BY <1>1
  <2>2. PICK m \in Nat : m = Shifted(n)[Width - i]
    BY <2>1, ShiftedAre
  <2>3. Values(d)[i - 1] = Without(m)
    <3>1. Shifted(n)[Width - i + 1] = Without(Shifted(n)[(Width - i + 1) - 1])
      BY <2>1, ShiftedAre
    <3>2. (Width - i + 1) - 1 = Width - i
      BY <1>1
    <3> QED
      BY <1>3, <2>1, <2>2, <3>1, <3>2
  <2>4. d[i] = LastByte(m)
    BY <2>2, BigEndianType
  <2>5. Values(d)[i] = With(Values(d)[i - 1], d[i])
    BY <1>1, ValuesAre
  <2>6. With(Without(m), LastByte(m)) = m
    BY LastByteAside
  <2> QED
    BY <1>1, <2>2, <2>3, <2>4, <2>5, <2>6
<1>4. 0..Width \subseteq T
  <2> HIDE DEF T
  <2> QED
    BY <1>1, <1>2, <1>3, InductionUpTo
<1>5. Values(d)[Width] = Shifted(n)[0]
  <2>1. Width \in 0..Width /\ Width - Width = 0
    BY <1>1
  <2> QED
    BY <1>4, <2>1
<1> QED
  BY <1>1, <1>5, ShiftedAre DEF Value

-----------------------------------------------------------------------------
(* The encoding: the reader. *)

Reader == [at : Nat, list : Seq(Seq(Nat))]

(* A part of a string of bytes is one. *)
LEMMA SubSeqType ==
  ASSUME NEW s \in Seq(Nat), NEW m \in Nat \ {0}, NEW n \in Int, n <= Len(s)
  PROVE  SubSeq(s, m, n) \in Seq(Nat)
<1>1. Len(s) \in Nat
  BY LenProperties
<1>2. \A i \in m..n : s[i] \in Nat
  BY <1>1, ElementOfSeq
<1> QED
  BY <1>2, SubSeqProperties

(* Whatever the bytes, the reader gets on with a list of chunks. *)
LEMMA ReadChunkType ==
  ASSUME NEW s \in Seq(Nat), NEW r \in Reader, r.at # 0
  PROVE  ReadChunk(s, r) \in Reader /\ ReadChunk(s, r).at # 0
<1> DEFINE start == r.at + Width
           end == start + Value(SubSeq(s, r.at, start - 1))
<1>1. /\ Width \in Nat \ {0} /\ Base \in Nat /\ Len(s) \in Nat
      /\ r.at \in Nat \ {0} /\ r.list \in Seq(Seq(Nat)) /\ start \in Nat \ {0}
  BY PrefixAssumption, LenProperties DEF Reader
<1>2. CASE r.at = Len(s) + 1
  BY <1>2 DEF ReadChunk
<1>3. CASE r.at # Len(s) + 1 /\ (start > Len(s) + 1 \/ end > Len(s) + 1)
  <2>1. Garbled \in Seq(Nat)
    BY <1>1 DEF Garbled
  <2>2. Append(r.list, Garbled) \in Seq(Seq(Nat))
    BY <1>1, <2>1, AppendProperties
  <2>3. ReadChunk(s, r) = [at |-> Len(s) + 1, list |-> Append(r.list, Garbled)]
    BY <1>3 DEF ReadChunk
  <2> QED
    BY <1>1, <2>2, <2>3 DEF Reader
<1>4. CASE r.at # Len(s) + 1 /\ ~(start > Len(s) + 1 \/ end > Len(s) + 1)
  <2>1. SubSeq(s, r.at, start - 1) \in Seq(Nat)
    <3>1. PICK m : m = start - 1
      OBVIOUS
    <3>2. m \in Int /\ m <= Len(s)
      BY <1>1, <1>4, <3>1
    <3>3. SubSeq(s, r.at, m) \in Seq(Nat)
      BY <1>1, <3>2, SubSeqType
    <3> QED
      BY <3>1, <3>3
  <2>2. end \in Nat \ {0} /\ end - 1 \in Int /\ end - 1 <= Len(s)
    <3>1. Value(SubSeq(s, r.at, start - 1)) \in Nat
      BY <2>1, ValuesAre
    <3>2. end \in Nat \ {0}
      BY <1>1, <3>1
    <3>3. end <= Len(s) + 1
      <4> HIDE DEF end
      <4> QED
        BY <1>1, <1>4, <3>2
    <3> HIDE DEF end
    <3> QED
      BY <1>1, <3>2, <3>3
  <2>3. SubSeq(s, start, end - 1) \in Seq(Nat)
    <3> HIDE DEF start, end
    <3> QED
      BY <1>1, <2>2, SubSeqType
  <2>4. Append(r.list, SubSeq(s, start, end - 1)) \in Seq(Seq(Nat))
    BY <1>1, <2>3, AppendProperties
  <2>5. ReadChunk(s, r) = [at |-> end, list |-> Append(r.list, SubSeq(s, start, end - 1))]
    BY <1>4 DEF ReadChunk
  <2> QED
    BY <2>2, <2>4, <2>5 DEF Reader
<1> QED
  BY <1>2, <1>3, <1>4

(* What Readers computes. *)
LEMMA ReadersAre ==
  ASSUME NEW s \in Seq(Nat)
  PROVE  /\ Readers(s)[0] = [at |-> 1, list |-> << >>]
         /\ \A i \in 1..Len(s) : Readers(s)[i] = ReadChunk(s, Readers(s)[i-1])
<1> DEFINE Begin == [at |-> 1, list |-> << >>]
           Reads(g) == g = [i \in 0..Len(s) |-> IF i = 0 THEN Begin ELSE ReadChunk(s, g[i-1])]
           R == {r \in Reader : r.at # 0}
<1>w. Len(s) \in Nat /\ Begin \in R
  BY LenProperties DEF Reader
<1>1. \E g : Reads(g)
  <2> DEFINE step == [i \in 1..Len(s) |-> [r \in R |-> ReadChunk(s, r)]]
  <2>1. step \in Steps(Len(s), R)
    BY ReadChunkType DEF Steps
  <2> HIDE DEF step, Begin, R
  <2>2. PICK f : Follows(f, Len(s), R, Begin, step)
    BY <1>w, <2>1, Recursion
  <2>3. ASSUME NEW i \in 1..Len(s) PROVE f[i] = ReadChunk(s, f[i-1])
    <3>1. i - 1 \in 0..Len(s)
      BY <1>w
    <3>2. step[i][f[i-1]] = ReadChunk(s, f[i-1])
      BY <2>2, <3>1 DEF step, Follows
    <3> QED
      BY <2>2, <3>2 DEF Follows
  <2>4. Reads(f)
    <3>1. f \in [0..Len(s) -> R] /\ f[0] = Begin
      BY <2>2 DEF Follows
    <3>2. \A i \in 0..Len(s) : f[i] = IF i = 0 THEN Begin ELSE ReadChunk(s, f[i-1])
      BY <1>w, <2>3, <3>1
    <3> QED
      BY <3>1, <3>2
  <2> QED
    BY <2>4
<1>2. Reads(Readers(s))
  BY <1>1 DEF Readers
<1>3. Readers(s) = [i \in 0..Len(s) |-> IF i = 0 THEN Begin ELSE ReadChunk(s, Readers(s)[i-1])]
  BY <1>2, Zenon
<1> HIDE DEF Reads
<1> QED
  BY <1>w, <1>3

-----------------------------------------------------------------------------
(* The encoding: the inductive invariant. *)

(* What is before a string of bytes can be read as if nothing followed. *)
LEMMA SubSeqBefore ==
  ASSUME NEW s \in Seq(Nat), NEW t \in Seq(Nat), NEW m \in 1..Len(s) + 1, NEW n \in 0..Len(s)
  PROVE  SubSeq(s \o t, m, n) = SubSeq(s, m, n)
<1>1. m \in Int /\ n \in Int /\ Len(s) \in Nat
  BY LenProperties
<1>2. CASE n < m
  <2>1. SubSeq(s, m, n) = << >>
    BY <1>1, <1>2, SubSeqEmpty
  <2>2. SubSeq(s \o t, m, n) = << >>
    BY <1>1, <1>2, SubSeqEmpty
  <2> QED
    BY <2>1, <2>2
<1>3. CASE m <= n
  <2>1. m \in 1..Len(s) /\ n \in 1..Len(s)
    BY <1>1, <1>3
  <2> QED
    BY <2>1, SubSeqOfConcat1
<1> QED
  BY <1>1, <1>2, <1>3

(* What has been put at the end is found there. *)
LEMMA SubSeqBehind ==
  ASSUME NEW s \in Seq(Nat), NEW t \in Seq(Nat)
  PROVE  SubSeq(s \o t, Len(s) + 1, Len(s) + Len(t)) = t
<1>1. Len(s) \in Nat /\ Len(t) \in Nat
  BY LenProperties
<1>2. CASE Len(t) = 0
  <2>1. t = << >> /\ Len(s) + Len(t) < Len(s) + 1
    BY <1>1, <1>2, EmptySeq
  <2> QED
    BY <1>1, <2>1, SubSeqEmpty
<1>3. CASE Len(t) # 0
  <2>1. PICK m, n : m = Len(s) + 1 /\ n = Len(s) + Len(t)
    OBVIOUS
  <2>2. m \in Len(s)+1 .. Len(s)+Len(t) /\ n \in Len(s)+1 .. Len(s)+Len(t)
    BY <1>1, <1>3, <2>1
  <2>3. SubSeq(s \o t, m, n) = SubSeq(t, m - Len(s), n - Len(s))
    BY <2>2, SubSeqOfConcat2
  <2>4. m - Len(s) = 1 /\ n - Len(s) = Len(t)
    BY <1>1, <2>1
  <2> QED
    BY <2>1, <2>3, <2>4, SubSeqFull
<1> QED
  BY <1>2, <1>3

(* `p` says where in the encoding each chunk of the list ends: p[k - 1] is  *)
(* where the prefix of the k-th begins.                                    *)
Ends(p, list, bytes) ==
  /\ \A k \in 0..Len(list) : p[k] \in Nat /\ k < p[k] /\ p[k] <= Len(bytes) + 1
  /\ p[0] = 1 /\ p[Len(list)] = Len(bytes) + 1
  /\ \A k \in 1..Len(list) :
       /\ p[k] = p[k-1] + Width + Len(list[k])
       /\ SubSeq(bytes, p[k-1], p[k-1] + Width - 1) = BigEndian(Len(list[k]))
       /\ SubSeq(bytes, p[k-1] + Width, p[k] - 1) = list[k]

PrefixIInv ==
  /\ chunks \in Seq(Seq(Nat)) /\ out \in Seq(Nat)
  /\ \A k \in 1..Len(chunks) : Fits(Len(chunks[k]))
  /\ \E p : Ends(p, chunks, out)

(* The empty list is encoded as no bytes.                                   *)
LEMMA PrefixInitIInv == PrefixInit => PrefixIInv
<1> SUFFICES ASSUME PrefixInit PROVE PrefixIInv
  OBVIOUS
<1>1. chunks = << >> /\ out = << >> /\ Len(chunks) = 0 /\ Len(out) = 0
  BY DEF PrefixInit
<1>2. Ends([k \in {0} |-> 1], chunks, out)
  BY <1>1 DEF Ends
<1> QED
  BY <1>1, <1>2 DEF PrefixIInv

(* Bytes may be joined in either order. *)
LEMMA Rejoined ==
  ASSUME NEW s \in Seq(Nat), NEW t \in Seq(Nat), NEW u \in Seq(Nat)
  PROVE  s \o (t \o u) = (s \o t) \o u
<1> DEFINE left == s \o (t \o u)
           right == (s \o t) \o u
<1>1. Len(s) \in Nat /\ Len(t) \in Nat /\ Len(u) \in Nat
  BY LenProperties
<1>2. s \o t \in Seq(Nat) /\ t \o u \in Seq(Nat) /\ left \in Seq(Nat) /\ right \in Seq(Nat)
  OBVIOUS
<1>3. Len(left) = Len(s) + Len(t) + Len(u) /\ Len(right) = Len(left)
  BY <1>1, <1>2
<1>4. ASSUME NEW i \in 1..Len(left) PROVE left[i] = right[i]
  BY <1>1, <1>2, <1>3
<1> HIDE DEF left, right
<1>5. left = right
  BY <1>2, <1>3, <1>4, SeqEqual
<1> QED
  BY <1>5 DEF left, right

(* One more chunk, behind what is there. *)
LEMMA EndsAfter ==
  ASSUME NEW list \in Seq(Seq(Nat)), NEW bytes \in Seq(Nat), NEW c \in Seq(Nat),
         NEW p, Ends(p, list, bytes)
  PROVE  /\ Append(list, c) \in Seq(Seq(Nat))
         /\ bytes \o Encoded(c) \in Seq(Nat)
         /\ \E q : Ends(q, Append(list, c), bytes \o Encoded(c))
<1> DEFINE b == BigEndian(Len(c))
           more == Append(list, c)
           longer == bytes \o Encoded(c)
           n == Len(list)
           end == Len(bytes) + Width + Len(c) + 1
           q == [k \in 0..(n + 1) |-> IF k = n + 1 THEN end ELSE p[k]]
<1>1. /\ n \in Nat /\ Len(bytes) \in Nat /\ Len(c) \in Nat /\ Width \in Nat \ {0}
      /\ \A k \in 1..n : list[k] \in Seq(Nat) /\ Len(list[k]) \in Nat
  BY PrefixAssumption, LenProperties, ElementOfSeq
<1>2. b \in Seq(Nat) /\ Len(b) = Width
  BY <1>1, BigEndianType
<1>3. /\ more \in Seq(Seq(Nat)) /\ Len(more) = n + 1 /\ more[n + 1] = c
      /\ \A k \in 1..n : more[k] = list[k]
  BY AppendProperties
<1>4. bytes \o b \in Seq(Nat) /\ Len(bytes \o b) = Len(bytes) + Width
  BY <1>1, <1>2, ConcatProperties
<1>5. longer = (bytes \o b) \o c
  <2>1. Encoded(c) = b \o c
    BY DEF Encoded
  <2> HIDE DEF b
  <2>2. bytes \o (b \o c) = (bytes \o b) \o c
    BY <1>2, Rejoined
  <2> QED
    BY <2>1, <2>2
<1>6. longer \in Seq(Nat) /\ Len(longer) + 1 = end
  BY <1>1, <1>4, <1>5, ConcatProperties
<1>7. /\ \A k \in 0..n : q[k] = p[k]
      /\ q[n + 1] = end
  BY <1>1
<1>8. /\ \A k \in 0..n : p[k] \in Nat /\ k < p[k] /\ p[k] <= Len(bytes) + 1
      /\ p[0] = 1 /\ p[n] = Len(bytes) + 1
  BY DEF Ends
<1> HIDE DEF more, q, b, end, longer, n
<1>9. ASSUME NEW k \in 0..(n + 1)
      PROVE  q[k] \in Nat /\ k < q[k] /\ q[k] <= Len(longer) + 1
  <2>1. end \in Nat /\ n + 1 < end /\ Len(bytes) + 1 <= end
    <3>1. n \in 0..n /\ n \in Nat
      BY <1>1 DEF n
    <3>2. n < Len(bytes) + 1
      BY <1>8, <3>1
    <3> QED
      BY <1>1, <3>1, <3>2 DEF end
  <2>2. CASE k = n + 1
    BY <1>6, <1>7, <2>1, <2>2
  <2>3. CASE k # n + 1
    <3>1. k \in 0..n
      BY <1>1, <2>3
    <3>2. q[k] = p[k] /\ p[k] \in Nat /\ k < p[k] /\ p[k] <= Len(bytes) + 1
      BY <1>7, <1>8, <3>1
    <3> QED
      BY <1>1, <1>6, <2>1, <3>2
  <2> QED
    BY <2>2, <2>3
<1>10. ASSUME NEW k \in 1..n
       PROVE  /\ q[k] = q[k-1] + Width + Len(more[k])
              /\ SubSeq(longer, q[k-1], q[k-1] + Width - 1) = BigEndian(Len(more[k]))
              /\ SubSeq(longer, q[k-1] + Width, q[k] - 1) = more[k]
  <2>1. k - 1 \in 0..n /\ k \in 0..n
    BY <1>1
  <2>2. PICK i \in Nat, j \in Nat : i = p[k-1] /\ j = p[k]
    BY <1>8, <2>1
  <2>3. /\ q[k-1] = i /\ q[k] = j /\ more[k] = list[k] /\ 1 <= i /\ j <= Len(bytes) + 1
    BY <1>3, <1>7, <1>8, <2>1, <2>2
  <2>4. /\ j = i + Width + Len(list[k])
        /\ SubSeq(bytes, i, i + Width - 1) = BigEndian(Len(list[k]))
        /\ SubSeq(bytes, i + Width, j - 1) = list[k]
    BY <2>2 DEF Ends, n
  <2>5. /\ i \in 1..Len(bytes) + 1 /\ i + Width - 1 \in 0..Len(bytes)
        /\ i + Width \in 1..Len(bytes) + 1 /\ j - 1 \in 0..Len(bytes)
    <3>1. Len(list[k]) \in Nat /\ Len(bytes) \in Nat /\ Width \in Nat \ {0}
      BY <1>1 DEF n
    <3>2. PICK l \in Nat : l = Len(list[k])
      BY <3>1
    <3>3. j = i + Width + l /\ 1 <= i /\ j <= Len(bytes) + 1
      BY <2>3, <2>4, <3>2
    <3> QED
      BY <3>1, <3>3
  <2>6. SubSeq(longer, i, i + Width - 1) = SubSeq(bytes, i, i + Width - 1)
    <3>1. b \o c \in Seq(Nat)
      BY <1>2, ConcatProperties
    <3> QED
      BY <2>5, <3>1, SubSeqBefore DEF longer, Encoded, b
  <2>7. SubSeq(longer, i + Width, j - 1) = SubSeq(bytes, i + Width, j - 1)
    <3>1. b \o c \in Seq(Nat)
      BY <1>2, ConcatProperties
    <3> QED
      BY <2>5, <3>1, SubSeqBefore DEF longer, Encoded, b
  <2> QED
    BY <2>3, <2>4, <2>6, <2>7
<1>11. /\ q[n + 1] = q[n] + Width + Len(more[n + 1])
       /\ SubSeq(longer, q[n], q[n] + Width - 1) = BigEndian(Len(more[n + 1]))
       /\ SubSeq(longer, q[n] + Width, q[n + 1] - 1) = more[n + 1]
  <2>1. q[n] = Len(bytes) + 1 /\ q[n + 1] = end /\ more[n + 1] = c
    BY <1>1, <1>3, <1>7, <1>8
  <2>2. SubSeq(longer, Len(bytes) + 1, Len(bytes) + Width) = b
    <3>1. SubSeq(longer, Len(bytes) + 1, Len(bytes) + Width)
            = SubSeq(bytes \o b, Len(bytes) + 1, Len(bytes) + Width)
      <4>1. /\ Len(bytes) + 1 \in 1..Len(bytes \o b) + 1
            /\ Len(bytes) + Width \in 0..Len(bytes \o b)
        BY <1>1, <1>4
      <4> QED
        BY <1>4, <1>5, <4>1, SubSeqBefore
    <3>2. SubSeq(bytes \o b, Len(bytes) + 1, Len(bytes) + Width) = b
      BY <1>2, SubSeqBehind
    <3> QED
      BY <3>1, <3>2
  <2>3. SubSeq(longer, Len(bytes) + Width + 1, Len(bytes) + Width + Len(c)) = c
    BY <1>4, <1>5, SubSeqBehind
  <2>4. /\ Len(bytes) + 1 + Width - 1 = Len(bytes) + Width
        /\ Len(bytes) + 1 + Width = Len(bytes) + Width + 1
        /\ end - 1 = Len(bytes) + Width + Len(c)
        /\ end = Len(bytes) + 1 + Width + Len(c)
    BY <1>1 DEF end
  <2> QED
    BY <2>1, <2>2, <2>3, <2>4 DEF b
<1>12. ASSUME NEW k \in 1..(n + 1)
       PROVE  /\ q[k] = q[k-1] + Width + Len(more[k])
              /\ SubSeq(longer, q[k-1], q[k-1] + Width - 1) = BigEndian(Len(more[k]))
              /\ SubSeq(longer, q[k-1] + Width, q[k] - 1) = more[k]
  <2>1. CASE k = n + 1
    <3>1. (n + 1) - 1 = n
      BY <1>1
    <3> QED
      BY <1>11, <2>1, <3>1
  <2>2. CASE k # n + 1
    <3>1. k \in 1..n
      BY <1>1, <2>2
    <3> QED
      BY <1>10, <3>1
  <2> QED
    BY <2>1, <2>2
<1>13. q[0] = 1 /\ q[n + 1] = Len(longer) + 1
  BY <1>1, <1>6, <1>7, <1>8
<1>14. Ends(q, more, longer)
  BY <1>3, <1>9, <1>12, <1>13 DEF Ends
<1> QED
  BY <1>3, <1>6, <1>14 DEF more, longer

(* Every chunk that is added ends where the encoding ends.                  *)
LEMMA PrefixNextIInv == PrefixIInv /\ [PrefixNext]_prefixvars => PrefixIInv'
<1> SUFFICES ASSUME PrefixIInv, [PrefixNext]_prefixvars PROVE PrefixIInv'
  OBVIOUS
<1>1. CASE PrefixNext
  <2>0. PICK n \in 0..MaxChunk : \E c \in [1..n -> Bytes] : Extend(c)
    BY <1>1 DEF PrefixNext
  <2>1. PICK c \in [1..n -> Bytes] : Extend(c)
    BY <2>0
  <2>2. c \in Seq(Nat)
    <3>1. Bytes \subseteq Nat /\ n \in Nat
      BY PrefixAssumption DEF Bytes
    <3>2. c \in [1..n -> Nat]
      BY <3>1
    <3> QED
      BY <3>1, <3>2
  <2>3. PICK p : Ends(p, chunks, out)
    BY DEF PrefixIInv
  <2>4. /\ chunks' = Append(chunks, c) /\ out' = out \o Encoded(c) /\ Fits(Len(c))
        /\ chunks \in Seq(Seq(Nat)) /\ out \in Seq(Nat)
        /\ \A k \in 1..Len(chunks) : Fits(Len(chunks[k]))
    BY <2>1 DEF Extend, PrefixIInv
  <2>5. chunks' \in Seq(Seq(Nat)) /\ out' \in Seq(Nat) /\ \E q : Ends(q, chunks', out')
    BY <2>2, <2>3, <2>4, EndsAfter
  <2>6. ASSUME NEW k \in 1..Len(chunks') PROVE Fits(Len(chunks'[k]))
    <3>1. /\ Len(chunks) \in Nat /\ Len(chunks') = Len(chunks) + 1
          /\ chunks'[Len(chunks) + 1] = c /\ \A i \in 1..Len(chunks) : chunks'[i] = chunks[i]
      BY <2>2, <2>4, AppendProperties, LenProperties
    <3>2. CASE k = Len(chunks) + 1
      BY <2>4, <3>1, <3>2
    <3>3. CASE k # Len(chunks) + 1
      <4>1. k \in 1..Len(chunks)
        BY <3>1, <3>3
      <4> QED
        BY <2>4, <3>1, <4>1
    <3> QED
      BY <3>2, <3>3
  <2> QED
    BY <2>5, <2>6 DEF PrefixIInv
<1>2. CASE UNCHANGED prefixvars
  BY <1>2 DEF PrefixIInv, Ends, prefixvars
<1> QED
  BY <1>1, <1>2

(* Where the chunks end, the reader takes one after the other. *)
LEMMA ReaderFollows ==
  ASSUME NEW list \in Seq(Seq(Nat)), NEW bytes \in Seq(Nat), NEW p, Ends(p, list, bytes),
         \A k \in 1..Len(list) : Fits(Len(list[k])),
         NEW k \in 1..Len(list)
  PROVE  ReadChunk(bytes, [at |-> p[k-1], list |-> SubSeq(list, 1, k - 1)])
           = [at |-> p[k], list |-> SubSeq(list, 1, k)]
<1>1. /\ Len(list) \in Nat /\ Len(bytes) \in Nat /\ Width \in Nat \ {0}
      /\ list[k] \in Seq(Nat) /\ Len(list[k]) \in Nat
  BY PrefixAssumption, LenProperties, ElementOfSeq
<1>2. k - 1 \in 0..Len(list) /\ k \in 0..Len(list)
  BY <1>1
<1>3. PICK i \in Nat, j \in Nat, l \in Nat : i = p[k-1] /\ j = p[k] /\ l = Len(list[k])
  BY <1>1, <1>2 DEF Ends
<1>4. /\ j = i + Width + l /\ j <= Len(bytes) + 1
      /\ SubSeq(bytes, i, i + Width - 1) = BigEndian(l)
      /\ SubSeq(bytes, i + Width, j - 1) = list[k]
  BY <1>2, <1>3 DEF Ends
<1>5. Value(SubSeq(bytes, i, i + Width - 1)) = l
  BY <1>3, <1>4, PrefixSaysLength
<1>6. PICK some : some = SubSeq(list, 1, k - 1)
  OBVIOUS
<1>7. i # Len(bytes) + 1 /\ ~(i + Width > Len(bytes) + 1) /\ ~(j > Len(bytes) + 1)
  BY <1>1, <1>4
<1>8. ReadChunk(bytes, [at |-> i, list |-> some]) = [at |-> j, list |-> Append(some, list[k])]
  <2>1. PICK r : r = [at |-> i, list |-> some]
    OBVIOUS
  <2>2. r.at = i /\ r.list = some
    BY <2>1
  <2>3. i + Width + l = j
    BY <1>4
  <2>4. PICK start \in Nat, end \in Nat : start = i + Width /\ end = j
    BY <1>1
  <2>5. /\ start = r.at + Width
        /\ end = start + Value(SubSeq(bytes, r.at, start - 1))
    <3>1. start = r.at + Width
      BY <2>2, <2>4
    <3>2. Value(SubSeq(bytes, r.at, start - 1)) = l
      <4>1. start - 1 = i + Width - 1
        BY <1>1, <2>4
      <4>2. Value(SubSeq(bytes, i, start - 1)) = l
        BY <1>5, <4>1
      <4> QED
        BY <2>2, <4>2
    <3>3. end = start + l
      BY <2>3, <2>4
    <3> QED
      BY <3>1, <3>2, <3>3
  <2>6. ReadChunk(bytes, r) =
          IF r.at = Len(bytes) + 1 THEN r
          ELSE IF start > Len(bytes) + 1 \/ end > Len(bytes) + 1
            THEN [at |-> Len(bytes) + 1, list |-> Append(r.list, Garbled)]
          ELSE [at |-> end, list |-> Append(r.list, SubSeq(bytes, start, end - 1))]
    BY <2>5 DEF ReadChunk
  <2>7. ReadChunk(bytes, r) = [at |-> end, list |-> Append(some, SubSeq(bytes, start, end - 1))]
    BY <1>7, <2>2, <2>4, <2>6
  <2> QED
    BY <1>4, <2>1, <2>4, <2>7
<1>9. Append(some, list[k]) = SubSeq(list, 1, k)
  <2>1. PICK m : m = k - 1
    OBVIOUS
  <2>2. some \in Seq(Seq(Nat))
    <3>1. \A x \in 1..m : list[x] \in Seq(Nat)
      BY <1>1, <2>1, ElementOfSeq
    <3> QED
      BY <1>6, <2>1, <3>1, SubSeqProperties
  <2>3. Append(some, list[k]) = some \o <<list[k]>>
    BY <1>1, <2>2, AppendIsConcat
  <2>4. 1 \in 1..Len(list) /\ k \in 1..Len(list)
    BY <1>1
  <2>5. SubSeq(list, 1, k) = SubSeq(list, 1, k - 1) \o <<list[k]>>
    BY <2>4, SubSeqRecursiveSecond
  <2> QED
    BY <1>6, <2>3, <2>5
<1> QED
  BY <1>3, <1>6, <1>8, <1>9

(* So it has the list back when there is nothing more. *)
LEMMA ReaderHasList ==
  ASSUME NEW list \in Seq(Seq(Nat)), NEW bytes \in Seq(Nat), NEW p, Ends(p, list, bytes),
         \A k \in 1..Len(list) : Fits(Len(list[k]))
  PROVE  Decoded(bytes) = list
<1> DEFINE n == Len(list)
           l == Len(bytes)
           Place(i) == IF i <= n THEN [at |-> p[i], list |-> SubSeq(list, 1, i)]
                       ELSE [at |-> l + 1, list |-> list]
           T == {i \in 0..l : Readers(bytes)[i] = Place(i)}
<1>1. n \in Nat /\ l \in Nat /\ p[0] = 1 /\ p[n] = l + 1 /\ n <= l
  <2>1. Len(list) \in Nat /\ Len(bytes) \in Nat
    BY LenProperties
  <2>2. Len(list) \in 0..Len(list)
    BY <2>1
  <2>3. Len(list) < p[Len(list)] /\ p[Len(list)] = Len(bytes) + 1 /\ p[0] = 1
    BY <2>2 DEF Ends
  <2> QED
    BY <2>1, <2>3
<1>2. SubSeq(list, 1, n) = list /\ SubSeq(list, 1, 0) = << >>
  BY SubSeqFull, SubSeqEmpty
<1>3. /\ Readers(bytes)[0] = [at |-> 1, list |-> << >>]
      /\ \A i \in 1..l : Readers(bytes)[i] = ReadChunk(bytes, Readers(bytes)[i-1])
  BY ReadersAre
<1>4. \A k \in 1..n : ReadChunk(bytes, [at |-> p[k-1], list |-> SubSeq(list, 1, k - 1)])
                       = [at |-> p[k], list |-> SubSeq(list, 1, k)]
  BY ReaderFollows
<1>5. ReadChunk(bytes, [at |-> l + 1, list |-> list]) = [at |-> l + 1, list |-> list]
  BY DEF ReadChunk
<1> HIDE DEF n, l
<1>6. 0 \in T
  BY <1>1, <1>2, <1>3
<1>7. ASSUME NEW i \in 1..l, i - 1 \in T PROVE i \in T
  <2>1. Readers(bytes)[i - 1] = Place(i - 1) /\ i \in 0..l
    BY <1>1, <1>7
  <2>2. CASE i <= n
    <3>1. i \in 1..n /\ i - 1 <= n
      BY <1>1, <2>2
    <3>2. Place(i - 1) = [at |-> p[i - 1], list |-> SubSeq(list, 1, i - 1)]
      BY <3>1
    <3>3. Place(i) = [at |-> p[i], list |-> SubSeq(list, 1, i)]
      BY <2>2
    <3>4. ReadChunk(bytes, Place(i - 1)) = Place(i)
      BY <1>4, <3>1, <3>2, <3>3
    <3> QED
      BY <1>3, <2>1, <3>4
  <2>3. CASE ~(i <= n)
    <3>1. Place(i) = [at |-> l + 1, list |-> list]
      BY <2>3
    <3>2. Place(i - 1) = [at |-> l + 1, list |-> list]
      <4>1. CASE i - 1 <= n
        <5>1. i - 1 = n
          BY <1>1, <2>3, <4>1
        <5> QED
          BY <1>1, <1>2, <4>1, <5>1
      <4>2. CASE ~(i - 1 <= n)
        BY <4>2
      <4> QED
        BY <4>1, <4>2
    <3>3. ReadChunk(bytes, Place(i - 1)) = Place(i)
      BY <1>5, <3>1, <3>2
    <3> QED
      BY <1>3, <2>1, <3>3
  <2> QED
    BY <2>2, <2>3
<1>8. 0..l \subseteq T
  <2> HIDE DEF T
  <2> QED
    BY <1>1, <1>6, <1>7, InductionUpTo
<1>9. Readers(bytes)[l] = Place(l)
  <2>1. l \in 0..l
    BY <1>1
  <2>2. l \in T
    BY <1>8, <2>1
  <2> HIDE DEF Place
  <2> QED
    BY <2>2
<1>10. Place(l).list = list
  <2>1. CASE l <= n
    <3>1. l = n
      BY <1>1, <2>1
    <3> QED
      BY <1>2, <2>1, <3>1
  <2>2. CASE ~(l <= n)
    BY <2>2
  <2> QED
    BY <2>1, <2>2
<1> HIDE DEF Place
<1> QED
  BY <1>9, <1>10 DEF Decoded, l

(* _encode_len_prefixed: the reader gets every list of chunks back, however *)
(* long, of bytes with however many values and prefixes of however many    *)
(* bytes; a chunk may be as long as its prefix can say.                    *)
THEOREM EncodingTheorem == PrefixSpec => []EncodingRoundTrip
<1>1. PrefixIInv => EncodingRoundTrip
  BY ReaderHasList DEF PrefixIInv, EncodingRoundTrip
<1> QED
  BY <1>1, PrefixInitIInv, PrefixNextIInv, PTL DEF PrefixSpec
-----------------------------------------------------------------------------
(* The signed list of parts (HmacPayload), for messages with any number of  *)
(* recipients and attachments.                                             *)

PartSets == SUBSET Nat

(* What joining two lists gives.                                            *)
LEMMA Joined ==
  ASSUME NEW S, NEW s \in Seq(S), NEW t \in Seq(S)
  PROVE  /\ s \o t \in Seq(S) /\ Len(s \o t) = Len(s) + Len(t)
         /\ \A i \in 1..Len(s) : (s \o t)[i] = s[i]
         /\ \A i \in 1..Len(t) : (s \o t)[Len(s) + i] = t[i]
OBVIOUS

(* A list n times over is n times as long.                                  *)
LEMMA TimesRepeats ==
  ASSUME NEW S, NEW parts \in Seq(S), parts # << >>, NEW n \in Nat
  PROVE  /\ Times(n, parts) \in Seq(S)
         /\ Len(Times(n, parts)) = n * Len(parts)
<1>1. Len(parts) \in Nat \ {0} /\ n * Len(parts) \in Nat
  OBVIOUS
<1>2. \A i \in 1..(n * Len(parts)) : parts[((i - 1) % Len(parts)) + 1] \in S
  BY <1>1
<1> QED
  BY <1>1, <1>2 DEF Times

(* How long the list is, and where the ids of the recipients end: behind    *)
(* them comes the encrypted key.                                           *)
LEMMA PartsOf ==
  ASSUME NEW m \in [recipients : Nat, attachments : Nat]
  PROVE  /\ Parts(m) \in Seq(PartSets)
         /\ Len(Parts(m)) = 12 + m.recipients + 7 * m.attachments
         /\ \A i \in 4..(3 + m.recipients) : Parts(m)[i] = Uuid
         /\ Parts(m)[4 + m.recipients] = Key
<1>1. PICK head : head = <<Version, Uuid, Uuid>>
  OBVIOUS
<1>2. PICK ids : ids = Times(m.recipients, <<Uuid>>)
  OBVIOUS
<1>3. PICK fields : fields = EncryptedFields
  OBVIOUS
<1>4. PICK rows : rows = Times(m.attachments, AttachmentFields)
  OBVIOUS
<1>5. m.recipients \in Nat /\ m.attachments \in Nat
  OBVIOUS
<1>6. head \in Seq(PartSets) /\ Len(head) = 3
  BY <1>1 DEF Version, Uuid, PartSets
<1>7. /\ ids \in Seq(PartSets) /\ Len(ids) = m.recipients
      /\ \A i \in 1..m.recipients : ids[i] = Uuid
  <2>1. PICK part : part = <<Uuid>>
    OBVIOUS
  <2>2. part \in Seq(PartSets) /\ part # << >> /\ Len(part) = 1 /\ part[1] = Uuid
    BY <2>1 DEF Uuid, PartSets
  <2>3. ids = Times(m.recipients, part)
    BY <1>2, <2>1
  <2>4. ids \in Seq(PartSets) /\ Len(ids) = m.recipients * Len(part)
    BY <1>5, <2>2, <2>3, TimesRepeats
  <2>5. ASSUME NEW i \in 1..m.recipients PROVE ids[i] = Uuid
    <3>1. ((i - 1) % 1) + 1 = 1 /\ i \in 1..(m.recipients * 1)
      BY <1>5
    <3> QED
      BY <2>2, <2>3, <3>1 DEF Times
  <2> QED
    BY <1>5, <2>2, <2>4, <2>5
<1>8. fields \in Seq(PartSets) /\ Len(fields) = 9 /\ fields[1] = Key
  BY <1>3 DEF EncryptedFields, Key, Nonce, Tag, Text, PartSets
<1>9. rows \in Seq(PartSets) /\ Len(rows) = 7 * m.attachments
  <2>1. PICK part : part = AttachmentFields
    OBVIOUS
  <2>2. part \in Seq(PartSets) /\ part # << >> /\ Len(part) = 7
    BY <2>1 DEF AttachmentFields, Uuid, Filename, ContentType, SizeBytes, Text,
                Nonce, Tag, PartSets
  <2>3. rows \in Seq(PartSets) /\ Len(rows) = m.attachments * Len(part)
    BY <1>4, <1>5, <2>1, <2>2, TimesRepeats
  <2> QED
    BY <1>5, <2>2, <2>3
<1>10. PICK front : front = head \o ids
  OBVIOUS
<1>11. /\ front \in Seq(PartSets) /\ Len(front) = 3 + m.recipients
       /\ \A i \in 4..(3 + m.recipients) : front[i] = Uuid
  <2>0. head \in Seq(PartSets) /\ ids \in Seq(PartSets)
    BY <1>6, <1>7
  <2>1. /\ front \in Seq(PartSets) /\ Len(front) = Len(head) + Len(ids)
        /\ \A i \in 1..Len(ids) : front[Len(head) + i] = ids[i]
    BY <1>10, <2>0, Joined
  <2>2. ASSUME NEW i \in 4..(3 + m.recipients) PROVE front[i] = Uuid
    <3>1. i - 3 \in 1..m.recipients /\ i = 3 + (i - 3)
      BY <1>5
    <3> QED
      BY <1>6, <1>7, <2>1, <3>1
  <2> QED
    BY <1>6, <1>7, <2>1, <2>2
<1>12. PICK most : most = front \o fields
  OBVIOUS
<1>13. /\ most \in Seq(PartSets) /\ Len(most) = 12 + m.recipients
       /\ \A i \in 4..(3 + m.recipients) : most[i] = Uuid
       /\ most[4 + m.recipients] = Key
  <2>0. front \in Seq(PartSets) /\ fields \in Seq(PartSets)
    BY <1>8, <1>11
  <2>1. /\ most \in Seq(PartSets) /\ Len(most) = Len(front) + Len(fields)
        /\ \A i \in 1..Len(front) : most[i] = front[i]
        /\ \A i \in 1..Len(fields) : most[Len(front) + i] = fields[i]
    BY <1>12, <2>0, Joined
  <2>2. most[(3 + m.recipients) + 1] = Key /\ (3 + m.recipients) + 1 = 4 + m.recipients
    BY <1>5, <1>8, <1>11, <2>1
  <2>3. Len(most) = 12 + m.recipients
    BY <1>5, <1>8, <1>11, <2>1
  <2>4. \A i \in 4..(3 + m.recipients) : i \in 1..Len(front) /\ most[i] = front[i]
    BY <1>5, <1>11, <2>1
  <2>5. \A i \in 4..(3 + m.recipients) : most[i] = Uuid
    BY <1>11, <2>4
  <2> QED
    BY <2>1, <2>2, <2>3, <2>5
<1>14. PICK parts : parts = most \o rows
  OBVIOUS
<1>15. /\ parts \in Seq(PartSets) /\ Len(parts) = Len(most) + Len(rows)
       /\ \A i \in 1..Len(most) : parts[i] = most[i]
  <2>1. most \in Seq(PartSets) /\ rows \in Seq(PartSets)
    BY <1>9, <1>13
  <2> QED
    BY <1>14, <2>1, Joined
<1>16. Parts(m) = parts
  BY <1>1, <1>2, <1>3, <1>4, <1>10, <1>12, <1>14 DEF Parts
<1>17. Len(parts) = 12 + m.recipients + 7 * m.attachments
  BY <1>5, <1>9, <1>13, <1>15
<1>18. (\A i \in 4..(3 + m.recipients) : parts[i] = Uuid) /\ parts[4 + m.recipients] = Key
  BY <1>5, <1>13, <1>15
<1> QED
  BY <1>15, <1>16, <1>17, <1>18

(* With more recipients in the one and more attachments in the other, an id *)
(* meets the encrypted key, which is shorter.                              *)
LEMMA FewerDiffer ==
  ASSUME NEW m \in [recipients : Nat, attachments : Nat],
         NEW n \in [recipients : Nat, attachments : Nat],
         m.recipients < n.recipients
  PROVE  ~MayBeEqual(Parts(m), Parts(n)) /\ ~MayBeEqual(Parts(n), Parts(m))
<1>1. PICK i \in Nat : i = 4 + m.recipients
  OBVIOUS
<1>2. Parts(m)[i] = Key /\ Parts(n)[i] = Uuid
  <2>1. Parts(m)[i] = Key
    BY <1>1, PartsOf
  <2>2. m.recipients \in Nat /\ n.recipients \in Nat
    OBVIOUS
  <2>3. i \in 4..(3 + n.recipients)
    BY <1>1, <2>2
  <2>4. Parts(n)[i] = Uuid
    BY <2>3, PartsOf
  <2> QED
    BY <2>1, <2>4
<1>3. i \in DOMAIN Parts(m) /\ i \in DOMAIN Parts(n)
  <2>1. /\ m.recipients \in Nat /\ n.recipients \in Nat
        /\ m.attachments \in Nat /\ n.attachments \in Nat
    OBVIOUS
  <2>2. /\ Parts(m) \in Seq(PartSets) /\ Len(Parts(m)) = 12 + m.recipients + 7 * m.attachments
        /\ Parts(n) \in Seq(PartSets) /\ Len(Parts(n)) = 12 + n.recipients + 7 * n.attachments
    BY PartsOf
  <2>3. i \in 1..Len(Parts(m)) /\ i \in 1..Len(Parts(n))
    BY <1>1, <2>1, <2>2
  <2> QED
    BY <2>2, <2>3, LenProperties
<1>4. Key \cap Uuid = {} /\ Uuid \cap Key = {}
  BY DEF Key, Uuid
<1> QED
  BY <1>2, <1>3, <1>4 DEF MayBeEqual

(* Two messages that differ in recipients or attachments are not signed     *)
(* alike, however many they have: _message_hmac_payload needs no counts.   *)
THEOREM PayloadTheorem == PayloadSpec => []Unambiguous
<1> DEFINE Counted == /\ one \in [recipients : Nat, attachments : Nat]
                      /\ other \in [recipients : Nat, attachments : Nat]
<1>1. PayloadInit => Counted
  BY DEF PayloadInit, Smallest
<1>2. Counted /\ [PayloadNext]_payloadvars => Counted'
  BY DEF PayloadNext, AddRecipient, AddAttachment, WithRecipient, WithAttachment, payloadvars
<1>3. Counted => Unambiguous
  <2> SUFFICES ASSUME Counted, one # other, MayBeEqual(Parts(one), Parts(other))
               PROVE  FALSE
    BY DEF Unambiguous
  <2>1. one.recipients = other.recipients
    BY FewerDiffer
  <2>2. Len(Parts(one)) = Len(Parts(other))
    BY DEF MayBeEqual
  <2>3. one.attachments = other.attachments
    BY <2>1, <2>2, PartsOf
  <2> QED
    BY <2>1, <2>3
<1> HIDE DEF Counted
<1> QED
  BY <1>1, <1>2, <1>3, PTL DEF PayloadSpec
=============================================================================
