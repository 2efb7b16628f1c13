-------------------------- MODULE ApplyFiles_proofs --------------------------
(***************************************************************************)
(* What is proved about ApplyFiles for every clone, every verdict, and     *)
(* every threshold of the truncation guard.                                *)
(***************************************************************************)
EXTENDS ApplyFiles, TLAPS

-----------------------------------------------------------------------------
(* Texts as they are read *)

\* Reading changes neither the number of lines nor whether they are blank.
LEMMA ReadTextKeepsLines ==
  ASSUME NEW t \in Texts
  PROVE  /\ ReadText(t) \in Texts
         /\ ReadText(t).lines = t.lines
         /\ ReadText(t).blank = t.blank
         /\ t # ReadText(t) => t.crlf
BY DEF ReadText, Texts

-----------------------------------------------------------------------------
(* The two passes *)

IsLast(i, S) == i \in S /\ \A j \in S : j <= i

PendingFor(f) == {k \in DOMAIN pending : Target[pending[k].name] = f}
WrittenFor(f) == {k \in PendingFor(f) : k < at}

\* The changes the first pass has been through.
Reached == IF pc = "validate" THEN at - 1 ELSE Len(changes)
EffectiveSoFar(f) == {i \in EffectiveChanges(f) : i <= Reached}

\* Nothing is written while the change set is validated, nor if it is refused.
NothingWritten ==
  pc \in {"validate", "refused"} => disk = original /\ applied = <<>>

\* Whatever is pending changes its file and does not truncate it.
Passes(change, f) ==
  /\ f \in Files
  /\ change.text # ReadText(original[f])
  /\ original[f] \in Texts => ~LooksTruncated(ReadText(original[f]), change.text)

PendingPassed == \A k \in DOMAIN pending : Passes(pending[k], Target[pending[k].name])

\* The first pass keeps, for every file, the last change that has an effect.
LastIsPending ==
  pc # "refused" => \A f \in Files :
    \/ PendingFor(f) = {} /\ EffectiveSoFar(f) = {}
    \/ \E k \in PendingFor(f), i \in EffectiveSoFar(f) :
         /\ IsLast(k, PendingFor(f))
         /\ IsLast(i, EffectiveSoFar(f))
         /\ pending[k].text = changes[i].text

\* The second pass writes what is pending in its order.
LastIsWritten ==
  pc \in {"write", "applied"} =>
    /\ at <= Len(pending) + 1
    /\ Len(applied) = at - 1
    /\ \A k \in DOMAIN applied : applied[k] = pending[k]
    /\ \A f \in Files :
         \/ WrittenFor(f) = {} /\ disk[f] = original[f]
         \/ \E k \in WrittenFor(f) : IsLast(k, WrittenFor(f)) /\ disk[f] = pending[k].text

Positions ==
  /\ pc = "validate" => at <= Len(changes) + 1
  /\ pc = "applied" => at = Len(pending) + 1

ApplyInv ==
  /\ TypeOK
  /\ Positions
  /\ NothingWritten
  /\ PendingPassed
  /\ LastIsPending
  /\ LastIsWritten

-----------------------------------------------------------------------------
(* Every step keeps the invariant *)

LEMMA ApplyInvInit == Init => ApplyInv
<1> SUFFICES ASSUME Init PROVE ApplyInv
  OBVIOUS
<1>1. changes \in Seq(Changes)
  BY DEF Init
<1>2. TypeOK
  BY <1>1 DEF Init, TypeOK
<1>3. \A f \in Files : PendingFor(f) = {} /\ EffectiveSoFar(f) = {}
  BY <1>1 DEF Init, PendingFor, EffectiveSoFar, EffectiveChanges, Reached
<1> QED
  BY <1>1, <1>2, <1>3
     DEF Init, ApplyInv, Positions, NothingWritten, PendingPassed, LastIsPending, LastIsWritten

\* One more change looked at: it becomes the last of its file, or has no effect.
LEMMA AcceptKeepsLast ==
  ASSUME ApplyInv, Accept, NEW f \in Files
  PROVE  \/ PendingFor(f)' = {} /\ EffectiveSoFar(f)' = {}
         \/ \E k \in PendingFor(f)', i \in EffectiveSoFar(f)' :
              /\ IsLast(k, PendingFor(f)')
              /\ IsLast(i, EffectiveSoFar(f)')
              /\ pending'[k].text = changes'[i].text
<1>1. /\ pc = "validate" /\ pc' = "validate" /\ at' = at + 1 /\ UNCHANGED <<changes, original>>
      /\ at \in 1..Len(changes) /\ changes \in Seq(Changes) /\ pending \in Seq(Changes)
      /\ disk = original
  BY DEF ApplyInv, TypeOK, NothingWritten, Accept, Validating
<1>2. CASE TargetFile = f /\ ~SameAs(Existing, Change.text)
  <2>1. pending' = Append(pending, Change)
    BY <1>2 DEF Accept
  <2>2. IsLast(Len(pending) + 1, PendingFor(f)')
    BY <1>1, <1>2, <2>1 DEF IsLast, PendingFor, Change, TargetFile
  <2>3. IsLast(at, EffectiveSoFar(f)')
    BY <1>1, <1>2
       DEF IsLast, EffectiveSoFar, EffectiveChanges, Reached, Change, TargetFile, Existing,
           SameAs
  <2>4. pending'[Len(pending) + 1].text = changes'[at].text
    BY <1>1, <2>1 DEF Change
  <2> QED
    BY <2>2, <2>3, <2>4 DEF IsLast
<1>3. CASE TargetFile # f \/ SameAs(Existing, Change.text)
  <2>1. PendingFor(f)' = PendingFor(f) /\ \A k \in PendingFor(f) : pending'[k] = pending[k]
    <3>1. CASE SameAs(Existing, Change.text)
      BY <3>1 DEF Accept, PendingFor
    <3>2. CASE ~SameAs(Existing, Change.text)
      <4>1. pending' = Append(pending, Change) /\ Target[Change.name] # f
        BY <1>3, <3>2 DEF Accept, TargetFile
      <4> QED
        BY <1>1, <4>1 DEF PendingFor
    <3> QED
      BY <3>1, <3>2
  <2>2. EffectiveSoFar(f)' = EffectiveSoFar(f)
    BY <1>1, <1>3
       DEF EffectiveSoFar, EffectiveChanges, Reached, Change, TargetFile, Existing, SameAs
  <2>3. \/ PendingFor(f) = {} /\ EffectiveSoFar(f) = {}
        \/ \E k \in PendingFor(f), i \in EffectiveSoFar(f) :
             /\ IsLast(k, PendingFor(f))
             /\ IsLast(i, EffectiveSoFar(f))
             /\ pending[k].text = changes[i].text
    BY <1>1 DEF ApplyInv, LastIsPending
  <2> QED
    BY <1>1, <2>1, <2>2, <2>3
<1> QED
  BY <1>2, <1>3

LEMMA AcceptKeepsInv ==
  ASSUME ApplyInv, Accept
  PROVE  ApplyInv'
<1>1. /\ pc = "validate" /\ UNCHANGED <<pc, changes, original, disk, applied>>
      /\ at \in 1..Len(changes) /\ at' = at + 1
      /\ changes \in Seq(Changes) /\ pending \in Seq(Changes)
      /\ disk = original
  BY DEF ApplyInv, TypeOK, NothingWritten, Accept, Validating
<1>2. Change \in Changes /\ TargetFile \in Files
  <2>1. changes[at] \in Changes
    BY <1>1
  <2>2. changes[at].name \in Names
    BY <2>1 DEF Changes
  <2>3. Target[changes[at].name] \in Files \cup {Outside}
    BY <2>2, FilesAssumption
  <2> QED
    BY <2>1, <2>3 DEF Accept, Change, TargetFile
<1>3. pending' \in Seq(Changes)
  BY <1>1, <1>2 DEF Accept
<1>4. TypeOK'
  BY <1>1, <1>3 DEF ApplyInv, TypeOK
<1>5. PendingPassed'
  <2>1. \/ pending' = pending
        \/ pending' = Append(pending, Change) /\ Passes(Change, TargetFile)
    BY <1>1, <1>2, ReadTextKeepsLines DEF Accept, SameAs, Existing, Passes
  <2>2. \A k \in DOMAIN pending' :
          \/ k \in DOMAIN pending /\ pending'[k] = pending[k]
          \/ pending'[k] = Change /\ Passes(Change, TargetFile)
    BY <1>1, <2>1
  <2>3. \A k \in DOMAIN pending' : Passes(pending'[k], Target[pending'[k].name])
    BY <2>2 DEF ApplyInv, PendingPassed, TargetFile
  <2> QED
    BY <1>1, <2>3 DEF PendingPassed, Passes
<1>6. LastIsPending'
  BY AcceptKeepsLast DEF LastIsPending
<1> QED
  BY <1>1, <1>4, <1>5, <1>6 DEF ApplyInv, Positions, NothingWritten, LastIsWritten

\* The other steps of the first pass leave what is pending alone.
LEMMA ValidateKeepsInv ==
  ASSUME ApplyInv, RejectOutside \/ RefuseTruncated \/ Validated
  PROVE  ApplyInv'
<1>1. /\ pc = "validate" /\ UNCHANGED <<changes, original, disk, pending, applied>>
      /\ at \in 1..(Len(changes) + 1) /\ changes \in Seq(Changes) /\ pending \in Seq(Changes)
      /\ disk = original /\ applied = <<>>
  BY DEF ApplyInv, TypeOK, Positions, NothingWritten, RejectOutside, RefuseTruncated, Validated,
         Validating
<1>2. TypeOK' /\ Positions' /\ NothingWritten'
  BY <1>1
     DEF ApplyInv, TypeOK, Positions, NothingWritten, RejectOutside, RefuseTruncated, Validated,
         Validating
<1>3. PendingPassed'
  BY <1>1 DEF ApplyInv, PendingPassed, Passes
<1>4. LastIsPending'
  <2>1. ASSUME NEW f \in Files, pc' # "refused"
        PROVE  EffectiveSoFar(f)' = EffectiveSoFar(f)
    <3>1. CASE RejectOutside
      <4>1. TargetFile # f
        BY <3>1, FilesAssumption DEF RejectOutside
      <4> QED
        BY <1>1, <3>1, <4>1
           DEF RejectOutside, EffectiveSoFar, EffectiveChanges, Reached, TargetFile, Change
    <3>2. CASE Validated
      BY <1>1, <3>2 DEF Validated, EffectiveSoFar, EffectiveChanges, Reached
    <3> QED
      BY <2>1, <3>1, <3>2 DEF RefuseTruncated
  <2>2. \A f \in Files : PendingFor(f)' = PendingFor(f)
    BY <1>1 DEF PendingFor
  <2> QED
    BY <1>1, <2>1, <2>2 DEF ApplyInv, LastIsPending
<1>5. LastIsWritten'
  <2>1. \A f \in Files : pc' = "write" => WrittenFor(f)' = {}
    BY <1>1 DEF RejectOutside, RefuseTruncated, Validated, WrittenFor, PendingFor
  <2>2. pc' = "write" => at' = 1
    BY <1>1 DEF RejectOutside, RefuseTruncated, Validated
  <2>3. pc' # "applied"
    BY <1>1 DEF RejectOutside, RefuseTruncated, Validated
  <2> QED
    BY <1>1, <2>1, <2>2, <2>3 DEF LastIsWritten
<1> QED
  BY <1>2, <1>3, <1>4, <1>5 DEF ApplyInv

\* The second pass leaves the verdict and what is pending alone.
LEMMA SecondPassKeepsLast ==
  ASSUME LastIsPending, pc = "write", pc' \in {"write", "applied", "raised"},
         UNCHANGED <<changes, original, pending>>
  PROVE  LastIsPending'
<1>1. \A f : PendingFor(f)' = PendingFor(f)
  BY DEF PendingFor
<1>2. \A f : EffectiveSoFar(f)' = EffectiveSoFar(f)
  BY DEF EffectiveSoFar, EffectiveChanges, Reached
<1> QED
  BY <1>1, <1>2 DEF LastIsPending

LEMMA WriteKeepsInv ==
  ASSUME ApplyInv, Write
  PROVE  ApplyInv'
<1>1. /\ pc = "write" /\ UNCHANGED <<pc, changes, original, pending>>
      /\ at \in 1..Len(pending) /\ at' = at + 1
      /\ pending \in Seq(Changes) /\ applied \in Seq(Changes)
      /\ applied' = Append(applied, pending[at])
      /\ disk \in Disks /\ Len(applied) = at - 1
      /\ disk' = [disk EXCEPT ![Target[pending[at].name]] = pending[at].text]
  BY DEF ApplyInv, TypeOK, LastIsWritten, Write
<1>2. pending[at] \in Changes /\ pending[at].text \in Texts
  <2>1. pending[at] \in Changes
    BY <1>1
  <2> QED
    BY <2>1 DEF Changes
<1>3. Target[pending[at].name] \in Files
  BY <1>1 DEF ApplyInv, PendingPassed, Passes
<1>4. TypeOK'
  <2>1. disk' \in Disks
    BY <1>1, <1>2 DEF Disks
  <2>2. applied' \in Seq(Changes)
    BY <1>1, <1>2
  <2> QED
    BY <1>1, <2>1, <2>2 DEF ApplyInv, TypeOK
<1>5. PendingPassed'
  BY <1>1 DEF ApplyInv, PendingPassed, Passes
<1>6. LastIsPending'
  BY <1>1, SecondPassKeepsLast DEF ApplyInv
<1>7. LastIsWritten'
  <2>1. /\ at' <= Len(pending') + 1
        /\ Len(applied') = at' - 1
        /\ \A k \in DOMAIN applied' : applied'[k] = pending'[k]
    BY <1>1 DEF ApplyInv, LastIsWritten
  <2>2. ASSUME NEW f \in Files
        PROVE  \/ WrittenFor(f)' = {} /\ disk'[f] = original'[f]
               \/ \E k \in WrittenFor(f)' :
                    IsLast(k, WrittenFor(f)') /\ disk'[f] = pending'[k].text
    <3>1. CASE Target[pending[at].name] = f
      <4>1. IsLast(at, WrittenFor(f)')
        BY <1>1, <3>1 DEF IsLast, WrittenFor, PendingFor
      <4>2. disk'[f] = pending'[at].text
        BY <1>1, <3>1 DEF Disks
      <4> QED
        BY <4>1, <4>2 DEF IsLast
    <3>2. CASE Target[pending[at].name] # f
      <4>1. WrittenFor(f)' = WrittenFor(f)
        BY <1>1, <3>2 DEF WrittenFor, PendingFor
      <4>2. disk'[f] = disk[f]
        BY <1>1, <3>2 DEF Disks
      <4> QED
        BY <1>1, <4>1, <4>2 DEF ApplyInv, LastIsWritten
    <3> QED
      BY <3>1, <3>2
  <2> QED
    BY <2>1, <2>2 DEF LastIsWritten
<1> QED
  BY <1>1, <1>4, <1>5, <1>6, <1>7 DEF ApplyInv, Positions, NothingWritten

LEMMA ApplyInvStep == ApplyInv /\ [Next]_vars => ApplyInv'
<1> SUFFICES ASSUME ApplyInv, [Next]_vars PROVE ApplyInv'
  OBVIOUS
<1>1. CASE WriteFailed \/ Applied
  <2>1. /\ UNCHANGED <<changes, original, disk, at, pending, applied>>
        /\ pc = "write"
        /\ pc' = "raised" \/ (pc' = "applied" /\ at > Len(pending))
    BY <1>1 DEF WriteFailed, Applied
  <2>2. TypeOK'
    BY <2>1 DEF ApplyInv, TypeOK
  <2>3. Positions' /\ NothingWritten'
    BY <2>1 DEF ApplyInv, TypeOK, Positions, NothingWritten, LastIsWritten
  <2>4. PendingPassed'
    BY <2>1 DEF ApplyInv, PendingPassed, Passes
  <2>5. LastIsWritten'
    BY <2>1 DEF ApplyInv, LastIsWritten, WrittenFor, PendingFor
  <2> QED
    BY <2>1, <2>2, <2>3, <2>4, <2>5, SecondPassKeepsLast DEF ApplyInv
<1>2. CASE UNCHANGED vars
  <2>1. /\ \A f : PendingFor(f)' = PendingFor(f) /\ WrittenFor(f)' = WrittenFor(f)
        /\ \A f : EffectiveSoFar(f)' = EffectiveSoFar(f)
    BY <1>2 DEF vars, PendingFor, WrittenFor, EffectiveSoFar, EffectiveChanges, Reached
  <2>2. LastIsPending' /\ LastIsWritten'
    BY <1>2, <2>1 DEF vars, ApplyInv, LastIsPending, LastIsWritten
  <2> QED
    BY <1>2, <2>2
       DEF vars, ApplyInv, TypeOK, Positions, NothingWritten, PendingPassed, Passes
<1> QED
  BY <1>1, <1>2, AcceptKeepsInv, ValidateKeepsInv, WriteKeepsInv DEF Next, Over

LEMMA ApplyInvHolds == Spec => []ApplyInv
BY ApplyInvInit, ApplyInvStep, PTL DEF Spec

-----------------------------------------------------------------------------
(* Theorems *)

\* Every state of the two passes is well-formed.
THEOREM Typing == Spec => []TypeOK
<1>1. ApplyInv => TypeOK
  BY DEF ApplyInv
<1> QED
  BY <1>1, ApplyInvHolds, PTL

\* A refused fix has written nothing, wherever in it the truncated file stands.
THEOREM RefusalIsClean == Spec => []NothingHalfApplied
<1>1. ApplyInv => NothingHalfApplied
  BY DEF ApplyInv, NothingWritten, NothingHalfApplied
<1> QED
  BY <1>1, ApplyInvHolds, PTL

\* What is left of a file in the end: what it was, or the last pending change.
LEMMA EndOfFile ==
  ASSUME ApplyInv, pc = "applied", NEW f \in Files
  PROVE  \/ PendingFor(f) = {} /\ disk[f] = original[f]
         \/ \E k \in PendingFor(f) : IsLast(k, PendingFor(f)) /\ disk[f] = pending[k].text
<1>1. WrittenFor(f) = PendingFor(f)
  BY DEF ApplyInv, TypeOK, Positions, WrittenFor, PendingFor
<1> QED
  BY <1>1 DEF ApplyInv, LastIsWritten

\* No guarded file loses more than half of its lines, or all but white space, to
\* one fix, also if the verdict names it twice or by two names.
THEOREM FilesDoNotCollapse == Spec => []NoFileCollapses
<1>1. ASSUME ApplyInv, pc = "applied", NEW f \in Files,
             original[f] \in Texts, original[f].lines >= MinLines, disk[f] # original[f]
      PROVE  ~disk[f].blank /\ 2 * disk[f].lines >= original[f].lines
  <2>1. PICK k \in PendingFor(f) : disk[f] = pending[k].text
    BY <1>1, EndOfFile
  <2>2. ~LooksTruncated(ReadText(original[f]), disk[f])
    BY <1>1, <2>1 DEF ApplyInv, PendingPassed, Passes, PendingFor
  <2>3. disk[f] \in Texts
    <3>1. pending[k] \in Changes
      BY <1>1, <2>1 DEF ApplyInv, TypeOK, PendingFor
    <3> QED
      BY <2>1, <3>1 DEF Changes
  <2> QED
    BY <1>1, <2>2, <2>3, ReadTextKeepsLines DEF LooksTruncated, Texts
<1>2. ApplyInv => NoFileCollapses
  BY <1>1 DEF NoFileCollapses
<1> QED
  BY <1>2, ApplyInvHolds, PTL

\* A fix that applied nothing left the tree as it was, and one that wrote a file
\* changed it, but for a file of CR LF lines that was given its own bytes.
THEOREM WrittenFilesChange == Spec => []WrittenIsChanged
<1>1. ASSUME ApplyInv, pc = "applied", NEW i \in DOMAIN applied,
             disk[Target[applied[i].name]] = original[Target[applied[i].name]]
      PROVE  /\ original[Target[applied[i].name]] \in Texts
             /\ original[Target[applied[i].name]].crlf
  <2> DEFINE f == Target[applied[i].name]
  <2>1. i \in DOMAIN pending /\ applied[i] = pending[i]
    BY <1>1 DEF ApplyInv, TypeOK, LastIsWritten
  <2>2. f \in Files /\ i \in PendingFor(f)
    BY <1>1, <2>1 DEF ApplyInv, PendingPassed, Passes, PendingFor
  <2>3. PICK k \in PendingFor(f) : disk[f] = pending[k].text
    BY <1>1, <2>2, EndOfFile
  <2>4. pending[k].text \in Texts /\ pending[k].text # ReadText(original[f])
    <3>1. pending[k] \in Changes
      BY <1>1, <2>3 DEF ApplyInv, TypeOK, PendingFor
    <3>2. Passes(pending[k], f)
      BY <1>1, <2>3 DEF ApplyInv, PendingPassed, PendingFor
    <3> QED
      BY <3>1, <3>2 DEF Changes, Passes
  <2>5. original[f] \in Texts /\ original[f] # ReadText(original[f])
    BY <1>1, <2>3, <2>4
  <2> QED
    BY <2>5, ReadTextKeepsLines
<1>2. ASSUME ApplyInv, pc = "applied", applied = <<>>
      PROVE  disk = original
  <2>1. Len(applied) = 0 /\ Len(applied) = at - 1 /\ at = Len(pending) + 1
    BY <1>2 DEF ApplyInv, Positions, LastIsWritten
  <2>2. Len(pending) = 0 /\ pending \in Seq(Changes)
    BY <1>2, <2>1 DEF ApplyInv, TypeOK
  <2>3. \A f \in Files : PendingFor(f) = {}
    BY <2>2 DEF PendingFor
  <2>4. \A f \in Files : disk[f] = original[f]
    BY <1>2, <2>3, EndOfFile
  <2> QED
    BY <1>2, <2>4 DEF ApplyInv, TypeOK, Disks
<1>3. ApplyInv => WrittenIsChanged
  BY <1>1, <1>2 DEF WrittenIsChanged
<1> QED
  BY <1>3, ApplyInvHolds, PTL

\* The order of the verdict decides, over both passes: a file ends up as the last
\* change that differs from what was there.
THEOREM OrderDecides == Spec => []LastChangeWins
<1>1. ASSUME ApplyInv, pc = "applied", NEW f \in Files
      PROVE  \/ EffectiveChanges(f) = {} /\ disk[f] = original[f]
             \/ \E i \in EffectiveChanges(f) :
                  (\A j \in EffectiveChanges(f) : j <= i) /\ disk[f] = changes[i].text
  <2>1. EffectiveSoFar(f) = EffectiveChanges(f)
    BY <1>1 DEF ApplyInv, TypeOK, EffectiveSoFar, EffectiveChanges, Reached
  <2>2. PendingFor(f) \subseteq Nat
    BY <1>1 DEF ApplyInv, TypeOK, PendingFor
  <2>3. \A k, l \in PendingFor(f) :
          IsLast(k, PendingFor(f)) /\ IsLast(l, PendingFor(f)) => k = l
    BY <2>2 DEF IsLast
  <2> QED
    BY <1>1, <2>1, <2>3, EndOfFile DEF ApplyInv, LastIsPending, IsLast
<1>2. ApplyInv => LastChangeWins
  BY <1>1 DEF LastChangeWins
<1> QED
  BY <1>2, ApplyInvHolds, PTL

=============================================================================
