--------------------------- MODULE EmitterProofs ---------------------------
(***************************************************************************)
(* Every branch of a finalized buffer lands on its label, for any program, *)
(* any number of labels and any reach of the two branch families.          *)
(***************************************************************************)
EXTENDS Emitter, SequenceTheorems, TLAPS

-----------------------------------------------------------------------------
(* The inductive invariant *)

(* A label that is bound names a word, or the end of the buffer. *)
LabelsInBuffer ==
    \A l \in 1 .. Len(labelPos) :
        labelPos[l] # kUnbound => labelPos[l] \in 0 .. Len(code)

(* A fixup describes the branch it was recorded for. *)
FixupsDescribe ==
    \A i \in 1 .. Len(fixups) :
        /\ fixups[i].at < Len(code)
        /\ code[fixups[i].at + 1].kind = fixups[i].kind
        /\ listing[fixups[i].at + 1].to = fixups[i].label
        /\ Issued(fixups[i].label)

(* Fixups and branches correspond one to one. *)
FixupsDistinct ==
    \A i, j \in 1 .. Len(fixups) : fixups[i].at = fixups[j].at => i = j

BranchesHaveFixups ==
    \A p \in 0 .. Len(code) - 1 :
        code[p + 1].kind # "plain" =>
            \E i \in 1 .. Len(fixups) : fixups[i].at = p

(* The loop of finalize has dealt with the fixups before next. *)
PatchedSoFar ==
    \A i \in 1 .. next - 1 :
        /\ Fits(fixups[i])
        /\ code[fixups[i].at + 1].field = Field(Delta(fixups[i]), fixups[i].kind)

StatusOK ==
    /\ status = "open" => next = 1
    /\ status \in {"patching", "final"} =>
          \A l \in 1 .. Len(labelPos) : labelPos[l] # kUnbound
    /\ status = "final" => next = Len(fixups) + 1

IInv ==
    /\ TypeOK
    /\ ListingHonest
    /\ LabelsInBuffer
    /\ FixupsDescribe
    /\ FixupsDistinct
    /\ BranchesHaveFixups
    /\ PatchedSoFar
    /\ StatusOK

-----------------------------------------------------------------------------
(* A displacement that fits its field survives the field. *)
LEMMA FieldRoundTrip ==
    ASSUME NEW kind \in Kinds, NEW delta \in Int,
           -Half(kind) <= delta, delta < Half(kind)
    PROVE  /\ Field(delta, kind) \in Nat
           /\ Displacement([kind |-> kind, field |-> Field(delta, kind)]) = delta
<1>1. Half(kind) \in Nat \ {0}
  BY HalvesPositive DEF Half
<1>2. CASE delta >= 0
  BY <1>1, <1>2 DEF Field, Displacement
<1>3. CASE delta < 0
  BY <1>1, <1>3 DEF Field, Displacement
<1> QED
  BY <1>2, <1>3

(* What the invariant says of the types of the parts of the state. *)
LEMMA Typing ==
    ASSUME TypeOK
    PROVE  /\ Len(code) \in Nat /\ Len(labelPos) \in Nat /\ Len(fixups) \in Nat
           /\ next \in Nat \ {0}
           /\ \A i \in 1 .. Len(fixups) :
                 /\ fixups[i] \in Fixups
                 /\ fixups[i].at \in Nat
                 /\ fixups[i].label \in Nat
                 /\ fixups[i].kind \in Kinds
           /\ \A p \in 1 .. Len(code) : code[p] \in Words
           /\ \A l \in 1 .. Len(labelPos) : labelPos[l] \in Nat \cup {kUnbound}
<1>1. /\ Len(code) \in Nat /\ Len(labelPos) \in Nat /\ Len(fixups) \in Nat
      /\ \A i \in 1 .. Len(fixups) : fixups[i] \in Fixups
      /\ \A p \in 1 .. Len(code) : code[p] \in Words
      /\ \A l \in 1 .. Len(labelPos) : labelPos[l] \in Nat \cup {kUnbound}
  BY ElementOfSeq, LenProperties DEF TypeOK
<1>2. next \in Nat \ {0}
  BY <1>1 DEF TypeOK
<1> QED
  BY <1>1, <1>2 DEF Fixups

LEMMA AbortPreserves == IInv /\ Abort => IInv'
<1> SUFFICES ASSUME IInv, Abort PROVE IInv'
  OBVIOUS
<1>1. status' = "aborted" /\ UNCHANGED <<code, listing, labelPos, fixups, next>>
  BY DEF Abort
<1> QED
  BY <1>1 DEF IInv, TypeOK, ListingHonest, LabelsInBuffer, FixupsDescribe,
      FixupsDistinct, BranchesHaveFixups, PatchedSoFar, StatusOK, Fits, Delta, Issued

LEMMA NewLabelPreserves == IInv /\ NewLabel => IInv'
<1> SUFFICES ASSUME IInv, NewLabel PROVE IInv'
  OBVIOUS
<1> DEFINE n == Len(labelPos)
<1>1. /\ labelPos' = Append(labelPos, kUnbound)
      /\ status = "open" /\ next = 1
      /\ UNCHANGED <<code, listing, fixups, status, next>>
  BY DEF NewLabel, IInv, StatusOK
<1>2. /\ labelPos' \in Seq(Nat \cup {kUnbound})
      /\ Len(labelPos') = n + 1
      /\ \A l \in 1 .. n : labelPos'[l] = labelPos[l]
      /\ labelPos'[n + 1] = kUnbound
      /\ n \in Nat
  BY <1>1, AppendProperties, Typing DEF IInv, TypeOK
<1>3. 1 .. n + 1 = (1 .. n) \cup {n + 1} /\ \A l : l \in 0 .. n - 1 => l \in 0 .. n + 1 - 1
  BY <1>2
<1>4. TypeOK' /\ ListingHonest' /\ FixupsDistinct' /\ BranchesHaveFixups'
  BY <1>1, <1>2 DEF IInv, TypeOK, ListingHonest, FixupsDistinct, BranchesHaveFixups
<1>5. LabelsInBuffer'
  BY <1>1, <1>2, <1>3 DEF IInv, LabelsInBuffer
<1>6. FixupsDescribe'
  BY <1>1, <1>2, <1>3 DEF IInv, FixupsDescribe, Issued
<1>7. PatchedSoFar' /\ StatusOK'
  BY <1>1 DEF PatchedSoFar, StatusOK
<1> QED
  BY <1>4, <1>5, <1>6, <1>7 DEF IInv

LEMMA BindPreserves ==
    ASSUME IInv, NEW l \in 0 .. MaxLabels, Bind(l)
    PROVE  IInv'
<1>1. CASE Abort
  BY <1>1, AbortPreserves
<1>2. CASE Issued(l) /\ labelPos' = [labelPos EXCEPT ![l + 1] = Len(code)]
             /\ UNCHANGED <<code, listing, fixups, status, next>>
  <2>1. status = "open" /\ next = 1 /\ l + 1 \in 1 .. Len(labelPos)
    BY <1>2, Typing DEF Bind, Issued, IInv, StatusOK
  <2>2. /\ labelPos' \in Seq(Nat \cup {kUnbound})
        /\ Len(labelPos') = Len(labelPos)
        /\ \A k \in 1 .. Len(labelPos) :
              labelPos'[k] = IF k = l + 1 THEN Len(code) ELSE labelPos[k]
    BY <1>2, <2>1, ExceptSeq, Typing DEF IInv, TypeOK
  <2>3. Len(code) \in 0 .. Len(code)
    BY Typing DEF IInv
  <2>4. TypeOK' /\ ListingHonest' /\ FixupsDistinct' /\ BranchesHaveFixups'
    BY <1>2, <2>2 DEF IInv, TypeOK, ListingHonest, FixupsDistinct, BranchesHaveFixups
  <2>5. LabelsInBuffer' /\ FixupsDescribe'
    BY <1>2, <2>2, <2>3 DEF IInv, LabelsInBuffer, FixupsDescribe, Issued
  <2>6. PatchedSoFar' /\ StatusOK'
    BY <1>2, <2>1 DEF PatchedSoFar, StatusOK
  <2> QED
    BY <2>4, <2>5, <2>6 DEF IInv
<1> QED
  BY <1>1, <1>2 DEF Bind

(* Emission appends to the code and to its listing alike. *)
LEMMA EmitFacts ==
    ASSUME TypeOK, Len(listing) = Len(code), NEW word \in Words,
           NEW label \in Nat \cup {NoLabel}, Emit(word, label)
    PROVE  /\ code' \in Seq(Words)
           /\ Len(code') = Len(code) + 1
           /\ \A p \in 1 .. Len(code) : code'[p] = code[p]
           /\ code'[Len(code) + 1] = word
           /\ listing' \in Seq([word : Words, to : Nat \cup {NoLabel}])
           /\ Len(listing') = Len(code) + 1
           /\ \A p \in 1 .. Len(code) : listing'[p] = listing[p]
           /\ listing'[Len(code) + 1] = [word |-> word, to |-> label]
<1>1. /\ code \in Seq(Words)
      /\ listing \in Seq([word : Words, to : Nat \cup {NoLabel}])
      /\ [word |-> word, to |-> label] \in [word : Words, to : Nat \cup {NoLabel}]
  BY DEF TypeOK
<1> QED
  BY <1>1, AppendProperties DEF Emit

LEMMA EmitPlainPreserves == IInv /\ EmitPlain => IInv'
<1> SUFFICES ASSUME IInv, EmitPlain PROVE IInv'
  OBVIOUS
<1> DEFINE n == Len(code)
           word == [kind |-> "plain", field |-> 0]
<1>1. /\ Emit(word, NoLabel)
      /\ status = "open" /\ next = 1
      /\ UNCHANGED <<labelPos, fixups, status, next>>
  BY DEF EmitPlain, IInv, StatusOK
<1>2. word \in Words /\ word.kind = "plain"
  BY DEF Words
<1> HIDE DEF word
<1>3. /\ code' \in Seq(Words)
      /\ Len(code') = n + 1
      /\ \A p \in 1 .. n : code'[p] = code[p]
      /\ code'[n + 1] = word
      /\ listing' \in Seq([word : Words, to : Nat \cup {NoLabel}])
      /\ Len(listing') = n + 1
      /\ \A p \in 1 .. n : listing'[p] = listing[p]
      /\ listing'[n + 1] = [word |-> word, to |-> NoLabel]
  BY <1>1, <1>2, EmitFacts DEF IInv, ListingHonest
<1>4. /\ n \in Nat
      /\ \A i \in 1 .. Len(fixups) : fixups[i].at \in Nat
      /\ \A l \in 1 .. Len(labelPos) : labelPos[l] \in Nat \cup {kUnbound}
  BY Typing DEF IInv
<1> HIDE DEF n
<1>5. TypeOK'
  BY <1>1, <1>3 DEF IInv, TypeOK
<1>6. ListingHonest'
  BY <1>3, <1>4 DEF IInv, ListingHonest, n
<1>7. LabelsInBuffer'
  <2>1. \A l \in 0 .. n : l \in 0 .. n + 1
    BY <1>4
  <2> QED
    BY <1>1, <1>3, <2>1 DEF IInv, LabelsInBuffer, n
<1>8. FixupsDescribe'
  <2> SUFFICES ASSUME NEW i \in 1 .. Len(fixups)
               PROVE  /\ fixups[i].at < n + 1
                      /\ code'[fixups[i].at + 1].kind = fixups[i].kind
                      /\ listing'[fixups[i].at + 1].to = fixups[i].label
                      /\ Issued(fixups[i].label)
    BY <1>1, <1>3 DEF FixupsDescribe, Issued
  <2>1. fixups[i].at + 1 \in 1 .. n /\ fixups[i].at < n + 1
    BY <1>4 DEF IInv, FixupsDescribe, n
  <2> QED
    BY <1>3, <2>1 DEF IInv, FixupsDescribe
<1>9. FixupsDistinct'
  BY <1>1 DEF IInv, FixupsDistinct
<1>10. BranchesHaveFixups'
  <2> SUFFICES ASSUME NEW p \in 0 .. Len(code') - 1, code'[p + 1].kind # "plain"
               PROVE  \E i \in 1 .. Len(fixups) : fixups[i].at = p
    BY <1>1 DEF BranchesHaveFixups
  <2>1. p \in 0 .. n /\ p # n
    BY <1>2, <1>3, <1>4
  <2>2. p \in 0 .. n - 1 /\ p + 1 \in 1 .. n
    BY <1>4, <2>1
  <2> QED
    BY <1>3, <2>2 DEF IInv, BranchesHaveFixups, n
<1>11. PatchedSoFar' /\ StatusOK'
  BY <1>1 DEF PatchedSoFar, StatusOK
<1> QED
  BY <1>5, <1>6, <1>7, <1>8, <1>9, <1>10, <1>11 DEF IInv

LEMMA BranchPreserves ==
    ASSUME IInv, NEW l \in 0 .. MaxLabels, NEW kind \in Kinds, Branch(l, kind)
    PROVE  IInv'
<1>1. CASE Abort
  BY <1>1, AbortPreserves
<1> DEFINE n == Len(code)
           m == Len(fixups)
           word == [kind |-> kind, field |-> 0]
           fixup == [at |-> n, label |-> l, kind |-> kind]
<1>2. CASE /\ Issued(l)
           /\ fixups' = Append(fixups, fixup)
           /\ Emit(word, l)
           /\ UNCHANGED <<labelPos, status, next>>
  <2>1. /\ n \in Nat /\ m \in Nat /\ l \in Nat
        /\ status = "open" /\ next = 1
        /\ \A i \in 1 .. m : fixups[i].at \in Nat
        /\ \A k \in 1 .. Len(labelPos) : labelPos[k] \in Nat \cup {kUnbound}
    BY Typing, BoundsAreNat DEF IInv, Branch, StatusOK
  <2>2. /\ word \in Words /\ word.kind = kind /\ kind # "plain"
        /\ fixup \in Fixups
        /\ fixup.at = n /\ fixup.label = l /\ fixup.kind = kind
    BY <2>1 DEF Words, Kinds, Fixups
  <2> HIDE DEF word
  <2>3. /\ code' \in Seq(Words)
        /\ Len(code') = n + 1
        /\ \A p \in 1 .. n : code'[p] = code[p]
        /\ code'[n + 1] = word
        /\ listing' \in Seq([word : Words, to : Nat \cup {NoLabel}])
        /\ Len(listing') = n + 1
        /\ \A p \in 1 .. n : listing'[p] = listing[p]
        /\ listing'[n + 1] = [word |-> word, to |-> l]
    BY <1>2, <2>1, <2>2, EmitFacts DEF IInv, ListingHonest
  <2>4. /\ fixups' \in Seq(Fixups)
        /\ Len(fixups') = m + 1
        /\ \A i \in 1 .. m : fixups'[i] = fixups[i]
        /\ fixups'[m + 1] = fixup
    BY <1>2, <2>2, AppendProperties DEF IInv, TypeOK
  <2>5. 1 .. m + 1 = (1 .. m) \cup {m + 1} /\ 1 \in 1 .. m + 1 + 1
    BY <2>1
  <2>6. \A i \in 1 .. m : fixups[i].at + 1 \in 1 .. n /\ fixups[i].at < n + 1
                            /\ fixups[i].at # n
    BY <2>1 DEF IInv, FixupsDescribe
  <2> HIDE DEF n, m, fixup
  <2>7. TypeOK'
    BY <1>2, <2>1, <2>3, <2>4, <2>5 DEF IInv, TypeOK
  <2>8. ListingHonest'
    BY <2>1, <2>3 DEF IInv, ListingHonest, n
  <2>9. LabelsInBuffer'
    BY <1>2, <2>1, <2>3 DEF IInv, LabelsInBuffer, n
  <2>10. FixupsDescribe'
    <3> SUFFICES ASSUME NEW i \in 1 .. m + 1
                 PROVE  /\ fixups'[i].at < n + 1
                        /\ code'[fixups'[i].at + 1].kind = fixups'[i].kind
                        /\ listing'[fixups'[i].at + 1].to = fixups'[i].label
                        /\ Issued(fixups'[i].label)
      BY <1>2, <2>3, <2>4 DEF FixupsDescribe, Issued
    <3>1. CASE i = m + 1
      BY <1>2, <2>1, <2>2, <2>3, <2>4, <3>1
    <3>2. CASE i \in 1 .. m
      BY <2>3, <2>4, <2>6, <3>2 DEF IInv, FixupsDescribe, m
    <3> QED
      BY <2>5, <3>1, <3>2
  <2>11. FixupsDistinct'
    <3> SUFFICES ASSUME NEW i \in 1 .. m + 1, NEW j \in 1 .. m + 1,
                        fixups'[i].at = fixups'[j].at
                 PROVE  i = j
      BY <2>4 DEF FixupsDistinct
    <3>1. CASE i = m + 1 \/ j = m + 1
      BY <2>2, <2>4, <2>5, <2>6, <3>1
    <3>2. CASE i \in 1 .. m /\ j \in 1 .. m
      BY <2>4, <3>2 DEF IInv, FixupsDistinct, m
    <3> QED
      BY <2>5, <3>1, <3>2
  <2>12. BranchesHaveFixups'
    <3> SUFFICES ASSUME NEW p \in 0 .. n, code'[p + 1].kind # "plain"
                 PROVE  \E i \in 1 .. m + 1 : fixups'[i].at = p
      BY <2>1, <2>3, <2>4 DEF BranchesHaveFixups
    <3>1. CASE p = n
      BY <2>2, <2>4, <2>5, <3>1
    <3>2. CASE p # n
      <4>1. p \in 0 .. n - 1 /\ p + 1 \in 1 .. n
        BY <2>1, <3>2
      <4>2. PICK i \in 1 .. m : fixups[i].at = p
        BY <2>3, <4>1 DEF IInv, BranchesHaveFixups, n, m
      <4> QED
        BY <2>4, <2>5, <4>2
    <3> QED
      BY <3>1, <3>2
  <2>13. PatchedSoFar' /\ StatusOK'
    BY <1>2, <2>1 DEF PatchedSoFar, StatusOK
  <2> QED
    BY <2>7, <2>8, <2>9, <2>10, <2>11, <2>12, <2>13 DEF IInv
<1> QED
  BY <1>1, <1>2 DEF Branch

LEMMA EndsPreserve == IInv /\ (StartFinalize \/ Finish) => IInv'
<1> SUFFICES ASSUME IInv, StartFinalize \/ Finish PROVE IInv'
  OBVIOUS
<1>1. CASE Abort
  BY <1>1, AbortPreserves
<1>2. CASE /\ UNCHANGED <<code, listing, labelPos, fixups, next>>
           /\ status' \in {"patching", "final"}
           /\ \A l \in 1 .. Len(labelPos) : labelPos[l] # kUnbound
           /\ status' = "final" => next = Len(fixups) + 1
  <2>1. StatusOK' /\ TypeOK'
    BY <1>2 DEF IInv, StatusOK, TypeOK
  <2>2. /\ ListingHonest' /\ LabelsInBuffer' /\ FixupsDescribe'
        /\ FixupsDistinct' /\ BranchesHaveFixups' /\ PatchedSoFar'
    BY <1>2 DEF IInv, ListingHonest, LabelsInBuffer, FixupsDescribe, FixupsDistinct,
        BranchesHaveFixups, PatchedSoFar, Fits, Delta, Issued
  <2> QED
    BY <2>1, <2>2 DEF IInv
<1>3. CASE StartFinalize
  BY <1>1, <1>2, <1>3 DEF StartFinalize
<1>4. CASE Finish
  BY <1>2, <1>4 DEF Finish, IInv, StatusOK
<1> QED
  BY <1>3, <1>4

(* The distance to patch into a fixup's branch, and the patched word. *)
LEMMA PatchFacts ==
    ASSUME IInv, status = "patching", NEW i \in 1 .. Len(fixups), Fits(fixups[i])
    PROVE  LET f == fixups[i]
               w == Patched(code[f.at + 1], f)
           IN  /\ f.at + 1 \in 1 .. Len(code)
               /\ Delta(f) \in Int
               /\ w \in Words
               /\ w.kind = f.kind
               /\ w.field = Field(Delta(f), f.kind)
<1> DEFINE f == fixups[i]
<1>1. /\ f \in Fixups /\ f.at \in Nat /\ f.label \in Nat /\ f.kind \in Kinds
      /\ Len(code) \in Nat /\ Len(labelPos) \in Nat
  BY Typing DEF IInv
<1>2. /\ f.at < Len(code)
      /\ code[f.at + 1].kind = f.kind
      /\ f.label \in 0 .. Len(labelPos) - 1
  BY DEF IInv, FixupsDescribe, Issued
<1>3. f.at + 1 \in 1 .. Len(code) /\ f.label + 1 \in 1 .. Len(labelPos)
  BY <1>1, <1>2
<1>4. Delta(f) \in Int
  <2>1. labelPos[f.label + 1] \in Nat
    BY <1>3, Typing DEF IInv, StatusOK
  <2> QED
    BY <1>1, <2>1 DEF Delta
<1>5. code[f.at + 1] \in Words
  BY <1>3, Typing DEF IInv
<1> HIDE DEF f
<1>6. Field(Delta(f), f.kind) \in Nat
  BY <1>1, <1>4, FieldRoundTrip DEF Fits, f
<1>7. Patched(code[f.at + 1], f) =
        [code[f.at + 1] EXCEPT !.field = Field(Delta(f), f.kind)]
  BY <1>2 DEF Patched
<1> QED
  BY <1>1, <1>2, <1>3, <1>4, <1>5, <1>6, <1>7 DEF Words, f

LEMMA PatchPreserves == IInv /\ Patch => IInv'
<1> SUFFICES ASSUME IInv, Patch PROVE IInv'
  OBVIOUS
<1>1. CASE Abort
  BY <1>1, AbortPreserves
<1> DEFINE f == fixups[next]
           w == Patched(code[f.at + 1], f)
<1>2. CASE /\ Fits(f)
           /\ code' = [code EXCEPT ![f.at + 1] = w]
           /\ listing' = [listing EXCEPT ![f.at + 1].word = w]
           /\ next' = next + 1
           /\ UNCHANGED <<labelPos, fixups, status>>
  <2>1. /\ next \in 1 .. Len(fixups) /\ status = "patching"
        /\ Len(fixups) \in Nat /\ next \in Nat \ {0}
    BY Typing DEF Patch, IInv
  <2>2. /\ f.at + 1 \in 1 .. Len(code)
        /\ w \in Words
        /\ w.kind = f.kind
        /\ w.field = Field(Delta(f), f.kind)
    BY <1>2, <2>1, PatchFacts
  <2>3. /\ Len(listing) = Len(code)
        /\ \A p \in 1 .. Len(code) : listing[p].word = code[p]
        /\ \A p \in 1 .. Len(code) : listing[p] \in [word : Words, to : Nat \cup {NoLabel}]
    BY ElementOfSeq DEF IInv, ListingHonest, TypeOK
  <2>4. \A i \in 1 .. Len(fixups) :
           /\ fixups[i].at \in Nat
           /\ fixups[i].at + 1 \in 1 .. Len(code)
           /\ (fixups[i].at + 1 = f.at + 1) => i = next
    <3> SUFFICES ASSUME NEW i \in 1 .. Len(fixups)
                 PROVE  /\ fixups[i].at \in Nat
                        /\ fixups[i].at + 1 \in 1 .. Len(code)
                        /\ (fixups[i].at + 1 = f.at + 1) => i = next
      OBVIOUS
    <3>1. fixups[i].at \in Nat /\ f.at \in Nat /\ Len(code) \in Nat
      BY <2>1, Typing DEF IInv
    <3>2. fixups[i].at < Len(code) /\ (fixups[i].at = f.at => i = next)
      BY <2>1 DEF IInv, FixupsDescribe, FixupsDistinct
    <3> QED
      BY <3>1, <3>2
  <2> HIDE DEF w
  <2>5. /\ code' \in Seq(Words)
        /\ Len(code') = Len(code)
        /\ \A p \in 1 .. Len(code) : code'[p] = IF p = f.at + 1 THEN w ELSE code[p]
    BY <1>2, <2>2, ExceptSeq DEF IInv, TypeOK
  <2>6. /\ listing' \in Seq([word : Words, to : Nat \cup {NoLabel}])
        /\ Len(listing') = Len(code)
        /\ \A p \in 1 .. Len(code) :
              /\ listing'[p].to = listing[p].to
              /\ listing'[p].word = IF p = f.at + 1 THEN w ELSE listing[p].word
    <3> DEFINE line == [listing[f.at + 1] EXCEPT !.word = w]
    <3>1. /\ line \in [word : Words, to : Nat \cup {NoLabel}]
          /\ line.word = w
          /\ line.to = listing[f.at + 1].to
      BY <2>2, <2>3
    <3>2. listing' = [listing EXCEPT ![f.at + 1] = line]
      BY <1>2
    <3>3. listing \in Seq([word : Words, to : Nat \cup {NoLabel}])
      BY DEF IInv, TypeOK
    <3> HIDE DEF line
    <3>4. /\ listing' \in Seq([word : Words, to : Nat \cup {NoLabel}])
          /\ Len(listing') = Len(code)
          /\ \A p \in 1 .. Len(code) :
                listing'[p] = IF p = f.at + 1 THEN line ELSE listing[p]
      BY <2>2, <2>3, <3>1, <3>2, <3>3, ExceptSeq
    <3> QED
      BY <3>1, <3>4
  <2>7. TypeOK'
    BY <1>2, <2>1, <2>5, <2>6 DEF IInv, TypeOK
  <2>8. ListingHonest'
    BY <2>3, <2>5, <2>6 DEF ListingHonest
  <2>9. LabelsInBuffer' /\ FixupsDistinct' /\ StatusOK'
    BY <1>2, <2>1, <2>5 DEF IInv, LabelsInBuffer, FixupsDistinct, StatusOK
  <2>10. FixupsDescribe'
    <3> SUFFICES ASSUME NEW i \in 1 .. Len(fixups)
                 PROVE  /\ fixups[i].at < Len(code)
                        /\ code'[fixups[i].at + 1].kind = fixups[i].kind
                        /\ listing'[fixups[i].at + 1].to = fixups[i].label
                        /\ Issued(fixups[i].label)
      BY <1>2, <2>5 DEF FixupsDescribe, Issued
    <3> QED
      BY <2>2, <2>4, <2>5, <2>6 DEF IInv, FixupsDescribe
  <2>11. BranchesHaveFixups'
    <3> SUFFICES ASSUME NEW p \in 0 .. Len(code) - 1, code'[p + 1].kind # "plain"
                 PROVE  \E i \in 1 .. Len(fixups) : fixups[i].at = p
      BY <1>2, <2>5 DEF BranchesHaveFixups
    <3>1. p + 1 \in 1 .. Len(code)
      BY Typing DEF IInv
    <3>2. CASE p + 1 = f.at + 1
      BY <2>1, <2>4, <3>2
    <3>3. CASE p + 1 # f.at + 1
      BY <2>5, <3>1, <3>3 DEF IInv, BranchesHaveFixups
    <3> QED
      BY <3>2, <3>3
  <2>12. PatchedSoFar'
    <3> SUFFICES ASSUME NEW i \in 1 .. next
                 PROVE  /\ Fits(fixups[i])
                        /\ code'[fixups[i].at + 1].field =
                              Field(Delta(fixups[i]), fixups[i].kind)
      BY <1>2, <2>1 DEF PatchedSoFar, Fits, Delta
    <3>1. i \in 1 .. Len(fixups)
      BY <2>1
    <3>2. CASE i = next
      BY <1>2, <2>2, <2>5, <3>2
    <3>3. CASE i # next
      <4>1. i \in 1 .. next - 1
        BY <2>1, <3>3
      <4>2. code'[fixups[i].at + 1] = code[fixups[i].at + 1]
        BY <2>4, <2>5, <3>1, <3>3
      <4> QED
        BY <4>1, <4>2 DEF IInv, PatchedSoFar
    <3> QED
      BY <3>2, <3>3
  <2> QED
    BY <2>7, <2>8, <2>9, <2>10, <2>11, <2>12 DEF IInv
<1> QED
  BY <1>1, <1>2 DEF Patch

-----------------------------------------------------------------------------
(* The invariant of the specification, and what follows from it *)

LEMMA InitEstablishes == Init => IInv
<1> SUFFICES ASSUME Init PROVE IInv
  OBVIOUS
<1>1. /\ code = <<>> /\ listing = <<>> /\ labelPos = <<>> /\ fixups = <<>>
      /\ status = "open" /\ next = 1
      /\ Len(code) = 0 /\ Len(listing) = 0 /\ Len(labelPos) = 0 /\ Len(fixups) = 0
  BY EmptySeq DEF Init
<1>2. TypeOK
  BY <1>1, EmptySeq DEF TypeOK
<1> QED
  BY <1>1, <1>2 DEF IInv, ListingHonest, LabelsInBuffer, FixupsDescribe,
      FixupsDistinct, BranchesHaveFixups, PatchedSoFar, StatusOK

LEMMA NextPreserves == IInv /\ [Next]_vars => IInv'
<1> SUFFICES ASSUME IInv, [Next]_vars PROVE IInv'
  OBVIOUS
<1>1. CASE NewLabel
  BY <1>1, NewLabelPreserves
<1>2. ASSUME NEW l \in 0 .. MaxLabels, Bind(l) PROVE IInv'
  BY <1>2, BindPreserves
<1>3. CASE EmitPlain
  BY <1>3, EmitPlainPreserves
<1>4. ASSUME NEW l \in 0 .. MaxLabels, NEW kind \in Kinds, Branch(l, kind)
      PROVE  IInv'
  BY <1>4, BranchPreserves
<1>5. CASE StartFinalize \/ Finish
  BY <1>5, EndsPreserve
<1>6. CASE Patch
  BY <1>6, PatchPreserves
<1>7. CASE UNCHANGED vars
  BY <1>7 DEF vars, IInv, TypeOK, ListingHonest, LabelsInBuffer, FixupsDescribe,
      FixupsDistinct, BranchesHaveFixups, PatchedSoFar, StatusOK, Fits, Delta, Issued
<1> QED
  BY <1>1, <1>2, <1>3, <1>4, <1>5, <1>6, <1>7 DEF Next

(* The inductive invariant holds in every reachable state of the emitter.  *)
THEOREM Invariance == Spec => []IInv
<1>1. Init => IInv
  BY InitEstablishes
<1>2. IInv /\ [Next]_vars => IInv'
  BY NextPreserves
<1> QED
  BY <1>1, <1>2, PTL DEF Spec

(* Words, fixups, listing keep their shape, and the loop variable of       *)
(* finalize never runs past the fixups (emitter.cc:558).                   *)
THEOREM TypeCorrect == Spec => []TypeOK
<1>1. IInv => TypeOK
  BY DEF IInv
<1> QED
  BY <1>1, Invariance, PTL

(* Every branch has been patched when the loop is over, with the distance  *)
(* to its label, and the processor reads that same distance back.          *)
LEMMA FinalBranchesLand == IInv => BranchesLand
<1> SUFFICES ASSUME IInv, status = "final",
                    NEW p \in 0 .. Len(code) - 1, code[p + 1].kind # "plain"
             PROVE  /\ Issued(listing[p + 1].to)
                    /\ p + Displacement(code[p + 1]) = labelPos[listing[p + 1].to + 1]
                    /\ labelPos[listing[p + 1].to + 1] \in 0 .. Len(code)
  BY DEF BranchesLand
<1>1. PICK i \in 1 .. Len(fixups) : fixups[i].at = p
  BY DEF IInv, BranchesHaveFixups
<1> DEFINE f == fixups[i]
<1>2. /\ f.at = p /\ f.at \in Nat /\ f.label \in Nat /\ f.kind \in Kinds
      /\ Len(fixups) \in Nat /\ Len(labelPos) \in Nat /\ Len(code) \in Nat
  BY <1>1, Typing DEF IInv
<1>3. /\ code[p + 1].kind = f.kind
      /\ listing[p + 1].to = f.label
      /\ Issued(f.label)
  BY <1>1, <1>2 DEF IInv, FixupsDescribe
<1>4. i \in 1 .. next - 1
  BY <1>2 DEF IInv, StatusOK
<1>5. Fits(f) /\ code[p + 1].field = Field(Delta(f), f.kind)
  BY <1>2, <1>4 DEF IInv, PatchedSoFar
<1>6. f.label + 1 \in 1 .. Len(labelPos)
  BY <1>2, <1>3 DEF Issued
<1>7. labelPos[f.label + 1] \in Nat /\ labelPos[f.label + 1] \in 0 .. Len(code)
  BY <1>6, Typing DEF IInv, StatusOK, LabelsInBuffer
<1>8. p \in Nat /\ Delta(f) = labelPos[f.label + 1] - p /\ Delta(f) \in Int
  BY <1>2, <1>7 DEF Delta
<1>9. p + 1 \in 1 .. Len(code)
  BY <1>2
<1>10. code[p + 1] = [kind |-> f.kind, field |-> Field(Delta(f), f.kind)]
  BY <1>3, <1>5, <1>9, Typing DEF IInv, Words
<1> HIDE DEF f
<1>11. Displacement(code[p + 1]) = Delta(f)
  BY <1>2, <1>5, <1>8, <1>10, FieldRoundTrip DEF Fits
<1> QED
  BY <1>3, <1>7, <1>8, <1>11

(* A finalized buffer branches where its labels were bound, whatever was   *)
(* emitted and whatever the reach of the branches (emitter.cc:558-596).    *)
THEOREM FinalBranches == Spec => []BranchesLand
<1>1. IInv => BranchesLand
  BY FinalBranchesLand
<1> QED
  BY <1>1, Invariance, PTL

(* The listing shows the buffer word for word, in every state.             *)
THEOREM ListingIsHonest == Spec => []ListingHonest
<1>1. IInv => ListingHonest
  BY DEF IInv
<1> QED
  BY <1>1, Invariance, PTL

(* A step of the emitter changes no opcode and no word without a field.    *)
LEMMA StepKeepsOpcodes ==
    ASSUME IInv, [Next]_vars, NEW p \in 1 .. Len(code)
    PROVE  /\ code'[p].kind = code[p].kind
           /\ code[p].kind = "plain" => code'[p] = code[p]
<1>1. CASE code' = code
  BY <1>1
<1>2. CASE \E word \in Words, label \in Nat \cup {NoLabel} : Emit(word, label)
  BY <1>2, EmitFacts DEF IInv, ListingHonest
<1>3. CASE Patch /\ ~Abort
  <2> DEFINE f == fixups[next]
             w == Patched(code[f.at + 1], f)
  <2>1. /\ Fits(f) /\ code' = [code EXCEPT ![f.at + 1] = w]
        /\ next \in 1 .. Len(fixups) /\ status = "patching"
        /\ Len(fixups) \in Nat
    BY <1>3, Typing DEF Patch, IInv
  <2>2. f.at + 1 \in 1 .. Len(code) /\ w.kind = f.kind
    BY <2>1, PatchFacts
  <2>3. code[f.at + 1].kind = f.kind /\ f.kind # "plain"
    BY <2>1, Typing DEF IInv, FixupsDescribe, Kinds
  <2> HIDE DEF w
  <2>4. \A q \in 1 .. Len(code) : code'[q] = IF q = f.at + 1 THEN w ELSE code[q]
    BY <2>1, <2>2, ExceptSeq DEF IInv, TypeOK
  <2> QED
    BY <2>2, <2>3, <2>4
<1>4. CASE EmitPlain
  <2>1. [kind |-> "plain", field |-> 0] \in Words
    BY DEF Words
  <2> QED
    BY <1>2, <1>4, <2>1 DEF EmitPlain
<1>5. ASSUME NEW l \in 0 .. MaxLabels, NEW kind \in Kinds, Branch(l, kind)
      PROVE  code' = code \/ \E word \in Words, label \in Nat \cup {NoLabel} :
                                 Emit(word, label)
  <2>1. [kind |-> kind, field |-> 0] \in Words /\ l \in Nat
    BY BoundsAreNat DEF Words
  <2> QED
    BY <1>5, <2>1 DEF Branch, Abort
<1> QED
  BY <1>1, <1>2, <1>3, <1>4, <1>5
     DEF Next, NewLabel, Bind, StartFinalize, Finish, Abort, vars

(* Patching changes displacements and nothing else of the program.         *)
THEOREM OpcodesAreKept == Spec => OpcodesKept
<1>1. IInv /\ [Next]_vars =>
          \A p \in 1 .. Len(code) :
              /\ code'[p].kind = code[p].kind
              /\ code[p].kind = "plain" => code'[p] = code[p]
  BY StepKeepsOpcodes
<1> QED
  BY <1>1, Invariance, PTL DEF Spec, OpcodesKept

(* A bound label stays where it is, through emission and patching alike.   *)
THEOREM LabelsStayPut == Spec => LabelsStay
<1>1. IInv /\ [Next]_vars =>
          \A l \in 1 .. Len(labelPos) :
              labelPos[l] # kUnbound => labelPos'[l] = labelPos[l]
  <2> SUFFICES ASSUME IInv, [Next]_vars, NEW l \in 1 .. Len(labelPos),
                      labelPos[l] # kUnbound
               PROVE  labelPos'[l] = labelPos[l]
    OBVIOUS
  <2>1. CASE labelPos' = labelPos
    BY <2>1
  <2>2. CASE NewLabel
    BY <2>2, AppendProperties DEF NewLabel, IInv, TypeOK
  <2>3. ASSUME NEW k \in 0 .. MaxLabels, Bind(k), labelPos' # labelPos
        PROVE  labelPos'[l] = labelPos[l]
    <3>1. /\ Issued(k) /\ labelPos[k + 1] = kUnbound
          /\ labelPos' = [labelPos EXCEPT ![k + 1] = Len(code)]
      BY <2>3 DEF Bind, Abort
    <3>2. k + 1 \in 1 .. Len(labelPos)
      BY <3>1, Typing DEF Issued, IInv
    <3> QED
      BY <3>1, <3>2, ExceptSeq DEF IInv, TypeOK
  <2> QED
    BY <2>1, <2>2, <2>3
       DEF Next, EmitPlain, Branch, StartFinalize, Patch, Finish, Abort, vars
<1> QED
  BY <1>1, Invariance, PTL DEF Spec, LabelsStay
=============================================================================
