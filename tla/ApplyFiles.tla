----------------------------- MODULE ApplyFiles -----------------------------
(***************************************************************************)
(* _apply_files: writing the files of a "fix" verdict into the clone.  The *)
(* whole change set is validated before anything is written; a replacement *)
(* that looks like a truncated rendering of its file refuses the fix.      *)
(***************************************************************************)
EXTENDS Naturals, Sequences

CONSTANTS
  Files,       \* files of the clone, by resolved path
  Names,       \* the paths the model may use for them
  Target,      \* the file a name resolves to, or Outside
  Outside,     \* "not in the clone"
  Absent,      \* no such file
  Binary,      \* a file that cannot be read as text
  MinLines,    \* _TRUNCATION_MIN_LINES
  MaxLines,    \* bound: lines of a text
  MaxChanges,  \* bound: files in a verdict
  WritesFail   \* whether a write may fail (a directory in the way)

\* A text is its number of lines, whether there is more to it than white space, and
\* whether a line of it ends in CR LF (or CR) instead of LF.
Texts ==
  {t \in [lines : 0..MaxLines, blank : BOOLEAN, crlf : BOOLEAN] :
     t.lines = 0 => t.blank /\ ~t.crlf}
Changes == [name : Names, text : Texts]
Disks == [Files -> Texts \cup {Absent, Binary}]

ASSUME FilesAssumption ==
  /\ Outside \notin Files
  /\ Target \in [Names -> Files \cup {Outside}]
  /\ Absent \notin Texts
  /\ Binary \notin Texts

ASSUME BoundsAssumption ==
  /\ MinLines \in Nat \ {0}
  /\ MaxLines \in Nat
  /\ MaxChanges \in Nat
  /\ WritesFail \in BOOLEAN

VARIABLES
  pc,        \* "validate", "write", or how it ended: "applied", "refused", "raised"
  changes,   \* the files of the verdict
  original,  \* the working tree before the fix
  disk,      \* the working tree
  at,        \* the position of the loop
  pending,   \* what passed the validation and is to be written
  applied    \* what has been written

vars == <<pc, changes, original, disk, at, pending, applied>>

TypeOK ==
  /\ pc \in {"validate", "write", "applied", "refused", "raised"}
  /\ changes \in Seq(Changes)
  /\ original \in Disks
  /\ disk \in Disks
  /\ at \in Nat \ {0}
  /\ pending \in Seq(Changes)
  /\ applied \in Seq(Changes)

Init ==
  /\ pc = "validate"
  /\ changes \in UNION {[1..n -> Changes] : n \in 0..MaxChanges}
  /\ original \in Disks
  /\ disk = original
  /\ at = 1
  /\ pending = <<>>
  /\ applied = <<>>

-----------------------------------------------------------------------------

\* At least MinLines lines become blank, or less than half of them are kept.
LooksTruncatedLoosely(existing, new) == \* mutant: > for >= at the smallest guarded file
  existing.lines > MinLines /\ (new.blank \/ 2 * new.lines < existing.lines)
LooksTruncated(existing, new) ==
  existing.lines >= MinLines /\ (new.blank \/ 2 * new.lines < existing.lines)

\* read_text makes every end of a line LF; write_text writes what it is given.
ReadText(content) ==
  IF content \in Texts THEN [content EXCEPT !.crlf = FALSE] ELSE content

Change == changes[at]
TargetFile == Target[Change.name]
Existing == ReadText(disk[TargetFile])

Validating == pc = "validate" /\ at <= Len(changes)

RejectOutside ==
  /\ Validating
  /\ TargetFile = Outside
  /\ at' = at + 1
  /\ UNCHANGED <<pc, changes, original, disk, pending, applied>>

\* TruncatedReplacementError: the caller resets the clone.
RefuseTruncated ==
  /\ Validating
  /\ TargetFile # Outside
  /\ Existing \in Texts
  /\ LooksTruncated(Existing, Change.text)
  /\ pc' = "refused"
  /\ UNCHANGED <<changes, original, disk, at, pending, applied>>

NeverSame(existing, new) == FALSE \* mutant: unchanged files are written too
SameAs(existing, new) == existing = new

AcceptAtOnce == \* mutant: each file is written as soon as it has passed
  /\ Validating
  /\ TargetFile # Outside
  /\ Existing \in Texts => ~LooksTruncated(Existing, Change.text)
  /\ pending' = IF SameAs(Existing, Change.text) THEN pending ELSE Append(pending, Change)
  /\ disk' = [disk EXCEPT ![TargetFile] = Change.text]
  /\ at' = at + 1
  /\ UNCHANGED <<pc, changes, original, applied>>

AcceptInFront == \* mutant: written in the opposite order
  /\ Validating
  /\ TargetFile # Outside
  /\ Existing \in Texts => ~LooksTruncated(Existing, Change.text)
  /\ pending' = IF SameAs(Existing, Change.text) THEN pending ELSE <<Change>> \o pending
  /\ at' = at + 1
  /\ UNCHANGED <<pc, changes, original, disk, applied>>

AcceptPath == \* mutant: keeps the resolved file where the change belongs
  /\ Validating
  /\ TargetFile # Outside
  /\ Existing \in Texts => ~LooksTruncated(Existing, Change.text)
  /\ pending' = IF SameAs(Existing, Change.text) THEN pending ELSE Append(pending, TargetFile)
  /\ at' = at + 1
  /\ UNCHANGED <<pc, changes, original, disk, applied>>

\* What is written is what differs from the file as it is read before the fix.
Accept ==
  /\ Validating
  /\ TargetFile # Outside
  /\ Existing \in Texts => ~LooksTruncated(Existing, Change.text)
  /\ pending' = IF SameAs(Existing, Change.text) THEN pending ELSE Append(pending, Change)
  /\ at' = at + 1
  /\ UNCHANGED <<pc, changes, original, disk, applied>>

Validated ==
  /\ pc = "validate"
  /\ at > Len(changes)
  /\ pc' = "write"
  /\ at' = 1
  /\ UNCHANGED <<changes, original, disk, pending, applied>>

Write ==
  /\ pc = "write"
  /\ at <= Len(pending)
  /\ disk' = [disk EXCEPT ![Target[pending[at].name]] = pending[at].text]
  /\ applied' = Append(applied, pending[at])
  /\ at' = at + 1
  /\ UNCHANGED <<pc, changes, original, pending>>

\* An OSError ends the run; the clone is thrown away with it.
WriteFailed ==
  /\ WritesFail
  /\ pc = "write"
  /\ at <= Len(pending)
  /\ pc' = "raised"
  /\ UNCHANGED <<changes, original, disk, at, pending, applied>>

Applied ==
  /\ pc = "write"
  /\ at > Len(pending)
  /\ pc' = "applied"
  /\ UNCHANGED <<changes, original, disk, at, pending, applied>>

Over == pc \in {"applied", "refused", "raised"} /\ UNCHANGED vars

Next ==
  \/ RejectOutside \/ RefuseTruncated \/ Accept \/ Validated
  \/ Write \/ WriteFailed \/ Applied
  \/ Over

Spec == Init /\ [][Next]_vars

-----------------------------------------------------------------------------
(* Properties *)

\* A refused fix has written nothing, wherever in the change set the truncated
\* file stands: "instead of leaving a half-applied working tree".
NothingHalfApplied == pc = "refused" => disk = original

\* No file of MinLines lines or more loses more than half of them, or all but
\* white space, in one fix, also if the verdict names it twice or by two names.
NoFileCollapses ==
  pc = "applied" => \A f \in Files :
    original[f] \in Texts /\ original[f].lines >= MinLines /\ disk[f] # original[f] =>
      ~disk[f].blank /\ 2 * disk[f].lines >= original[f].lines

\* A fix that applied nothing, and is answered as "already addressed", has left
\* the tree alone; and one that wrote a file has changed it, or it is a file of
\* CR LF lines and was given its own bytes.  So the commit that follows is empty,
\* which fails it and takes the whole batch with it, only if all that was written
\* are such files and files git ignores: nothing in the code looks for these two.
WrittenIsChanged ==
  pc = "applied" =>
    /\ applied = <<>> => disk = original
    /\ \A i \in DOMAIN applied : LET f == Target[applied[i].name] IN
         disk[f] = original[f] => original[f] \in Texts /\ original[f].crlf

\* The order of the verdict decides: a file ends up as the last change of it
\* that differs from what was read there.
EffectiveChanges(f) ==
  {i \in DOMAIN changes :
     Target[changes[i].name] = f /\ changes[i].text # ReadText(original[f])}

LastChangeWins ==
  pc = "applied" => \A f \in Files :
    \/ EffectiveChanges(f) = {} /\ disk[f] = original[f]
    \/ \E i \in EffectiveChanges(f) :
         /\ \A j \in EffectiveChanges(f) : j <= i
         /\ disk[f] = changes[i].text

=============================================================================
