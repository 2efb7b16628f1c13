------------------------------- MODULE Triage -------------------------------
(***************************************************************************)
(* The triage loop of _process_pr_locked, in the clone: for each pending   *)
(* comment the commented file is read, the provider is asked, its answer   *)
(* is parsed, and the files of a fix are written and committed - or reset, *)
(* when the fix is refused or only previewed.  What the model answers and  *)
(* what git does with ignored files is external.                           *)
(***************************************************************************)
EXTENDS Naturals, Sequences, SequencesExt

CONSTANTS
  Files,       \* paths in the clone
  Outside,     \* a path that leads out of it
  Ignored,     \* the files .gitignore names
  Texts,       \* what a file may hold
  Decoded,     \* what read_text makes of a text: CR LF and CR are read as LF
  Absent,      \* no such file
  Oversized,   \* texts above max_file_bytes
  Truncating,  \* the pairs <<existing, new>> that _looks_truncated refuses
  Checkout,    \* the tree that was cloned
  Commented,   \* the paths of the pending comments
  Bad,         \* an entry of "files" that is not a path with a content
  MaxFiles,    \* bound: entries in a verdict
  GitFails     \* whether a git command may fail

Entries == [path : Files \cup {Outside}, content : Texts] \cup {Bad}
Trees == [Files -> Texts \cup {Absent}]

ASSUME FilesAssumption ==
  /\ Outside \notin Files
  /\ Ignored \subseteq Files
  /\ Absent \notin Texts
  /\ Oversized \subseteq Texts
  /\ Truncating \subseteq Texts \X Texts
  /\ Checkout \in Trees
  /\ Commented \in Seq(Files \cup {Outside})
  /\ Bad \notin [path : Files \cup {Outside}, content : Texts]

ASSUME DecodedAssumption ==
  /\ Decoded \in [Texts -> Texts]
  /\ \A text \in Texts : Decoded[Decoded[text]] = Decoded[text]

ASSUME BoundsAssumption ==
  /\ MaxFiles \in Nat
  /\ GitFails \in BOOLEAN

VARIABLES
  settings,  \* settings.dry_run, and which of the two wire formats is used
  pc,        \* "read", "asked", "fix", "commit"; "over", or "raised"
  head,      \* the tree of HEAD
  tree,      \* the working tree
  files,     \* the files of the verdict, by their place in the answer
  replies,   \* the decisions in the _PendingReply list
  committed  \* the comments whose fixes are committed

vars == <<settings, pc, head, tree, files, replies, committed>>

Settings == [dry_run : BOOLEAN, wire : {"openai", "anthropic"}]
Changes == Entries \ {Bad}

TypeOK ==
  /\ settings \in Settings
  /\ pc \in {"read", "asked", "fix", "commit", "over", "raised"}
  /\ head \in Trees
  /\ tree \in Trees
  /\ files \in UNION {[places -> Changes] : places \in SUBSET (1..MaxFiles)}
  /\ replies \in Seq({"fix", "dismiss", "skip", "needs_review"})
  /\ Len(replies) <= Len(Commented)
  /\ committed \subseteq DOMAIN Commented

Init ==
  /\ settings \in Settings
  /\ pc = "read"
  /\ head = Checkout
  /\ tree = Checkout
  /\ files = <<>>
  /\ replies = <<>>
  /\ committed = {}

-----------------------------------------------------------------------------
(* Answers of the provider *)

\* The response of the HTTP call, and what is in its text once the fences and
\* the <think> block are gone.
Responses == {"timeout", "bad_status", "not_json", "not_an_object", "no_content", "content"}
Contents ==
  {"not_json", "not_an_object", "invalid_decision", "unhashable_decision", "verdict"}

\* _chat: an LLMError, or something that is none.
ChatRaises(response) ==
  \/ response \in {"timeout", "not_json"}
  \/ response = "not_an_object" /\ settings.wire = "anthropic"
ChatFails(response) ==
  ~ChatRaises(response) /\ response # "content"

\* parse_decision
ParseRaises(content) == content = "unhashable_decision"
ParseFails(content) == content \in {"not_json", "not_an_object", "invalid_decision"}
ParsedFiles(entries) == [i \in {j \in DOMAIN entries : entries[j] # Bad} |-> entries[i]]

-----------------------------------------------------------------------------
(* The working tree *)

ReadText(text) == IF text = Absent THEN Absent ELSE Decoded[text]

\* _apply_files: what differs from the file as it is read is written as it is
\* given, in order.
Inside == {i \in DOMAIN files : files[i].path # Outside}
Applied == {i \in Inside : ReadText(tree[files[i].path]) # files[i].content}
WrittenBy(places, t) ==
  [f \in Files |->
    LET mine == {i \in places : files[i].path = f}
    IN  IF mine = {} THEN t[f] ELSE files[Max(mine)].content]
LooksTruncated ==
  \E i \in Inside : <<ReadText(tree[files[i].path]), files[i].content>> \in Truncating

\* git reset --hard and git clean -fd: untracked files go, ignored ones stay.
ResetNothing(t) == t \* mutant: the preview stays in the tree
ResetTrackedOnly(t) == [f \in Files |-> IF head[f] = Absent THEN t[f] ELSE head[f]] \* mutant: no git clean
Untracked(f) == f \in Ignored /\ head[f] = Absent
Reset(t) == [f \in Files |-> IF Untracked(f) THEN t[f] ELSE head[f]]

\* git add --all: ignored files that are not tracked stay out.
StagedTracked == [f \in Files |-> IF head[f] = Absent THEN Absent ELSE tree[f]] \* mutant: git commit -a
Staged == [f \in Files |-> IF Untracked(f) THEN Absent ELSE tree[f]]

-----------------------------------------------------------------------------
(* The loop *)

Comment == Len(replies) + 1
Path == Commented[Comment]

Queue(decision) ==
  /\ replies' = Append(replies, decision)
  /\ pc' = "read"
  /\ files' = <<>>

Raised ==
  /\ pc' = "raised"
  /\ files' = <<>>
  /\ UNCHANGED <<settings, replies>>

HasComment == pc = "read" /\ Comment <= Len(Commented)

\* _gather_files_for_comment
Readable == Path # Outside /\ tree[Path] \notin Oversized \cup {Absent}

Unreadable ==
  /\ HasComment
  /\ ~Readable
  /\ Queue("needs_review")
  /\ UNCHANGED <<settings, head, tree, committed>>

Ask ==
  /\ HasComment
  /\ Readable
  /\ pc' = "asked"
  /\ UNCHANGED <<settings, head, tree, files, replies, committed>>

\* LLMError is caught: the comment goes to people.
LLMFailed ==
  /\ pc = "asked"
  /\ \/ \E response \in Responses : ChatFails(response)
     \/ \E content \in Contents : ParseFails(content)
  /\ Queue("needs_review")
  /\ UNCHANGED <<settings, head, tree, committed>>

\* Anything else is not: the whole run ends.
LLMRaised ==
  /\ pc = "asked"
  /\ \/ \E response \in Responses : ChatRaises(response)
     \/ \E content \in Contents : ParseRaises(content)
  /\ Raised
  /\ UNCHANGED <<head, tree, committed>>

\* A skip without a reason goes to people too.
Skip ==
  /\ pc = "asked"
  /\ \E decision \in {"skip", "needs_review"} : Queue(decision)
  /\ UNCHANGED <<settings, head, tree, committed>>

\* The reason is not a string: nothing has looked at its type.
SkipRaised ==
  /\ pc = "asked"
  /\ Raised
  /\ UNCHANGED <<head, tree, committed>>

Dismiss ==
  /\ pc = "asked"
  /\ Queue("dismiss")
  /\ UNCHANGED <<settings, head, tree, committed>>

FixUnparsed(entries) == \* mutant: entries are taken as they come
  /\ pc = "asked"
  /\ files' = entries
  /\ pc' = "fix"
  /\ UNCHANGED <<settings, head, tree, replies, committed>>

Fix(entries) ==
  /\ pc = "asked"
  /\ files' = ParsedFiles(entries)
  /\ pc' = "fix"
  /\ UNCHANGED <<settings, head, tree, replies, committed>>

RefuseTruncatedHalfway == \* mutant: written while it is checked, and not reset
  /\ pc = "fix"
  /\ LooksTruncated
  /\ tree' = WrittenBy(Inside, tree)
  /\ Queue("needs_review")
  /\ UNCHANGED <<settings, head, committed>>

RefuseTruncated ==
  /\ pc = "fix"
  /\ LooksTruncated
  /\ tree' = Reset(tree)
  /\ Queue("needs_review")
  /\ UNCHANGED <<settings, head, committed>>

\* The commands of the reset fail; nothing has been written yet.
ResetRaised ==
  /\ GitFails
  /\ pc = "fix"
  /\ LooksTruncated
  /\ Raised
  /\ UNCHANGED <<head, tree, committed>>

\* "The current code already appears to address this."
NothingApplied ==
  /\ pc = "fix"
  /\ ~LooksTruncated
  /\ Applied = {}
  /\ Queue("dismiss")
  /\ UNCHANGED <<settings, head, tree, committed>>

\* A write fails half-way, or the commands that follow it.
ApplyRaised ==
  /\ pc = "fix"
  /\ ~LooksTruncated
  /\ Applied # {}
  /\ Raised
  /\ \E n \in Applied : tree' = WrittenBy({i \in Applied : i <= n}, tree)
  /\ UNCHANGED <<head, committed>>

Preview ==
  /\ pc = "fix"
  /\ settings.dry_run
  /\ ~LooksTruncated
  /\ Applied # {}
  /\ tree' = Reset(WrittenBy(Applied, tree))
  /\ Queue("skip")
  /\ UNCHANGED <<settings, head, committed>>

Apply ==
  /\ pc = "fix"
  /\ ~settings.dry_run
  /\ ~LooksTruncated
  /\ Applied # {}
  /\ tree' = WrittenBy(Applied, tree)
  /\ pc' = "commit"
  /\ UNCHANGED <<settings, head, files, replies, committed>>

Commit ==
  /\ pc = "commit"
  /\ Staged # head
  /\ head' = Staged
  /\ committed' = committed \cup {Comment}
  /\ Queue("fix")
  /\ UNCHANGED <<settings, tree>>

PretendCommit == \* mutant: git commit runs without check=True
  /\ pc = "commit"
  /\ Staged = head
  /\ Queue("fix")
  /\ UNCHANGED <<settings, head, tree, committed>>

\* Only ignored files were written, or a file of CR LF lines got its own bytes:
\* git has nothing to commit.
NothingToCommit ==
  /\ pc = "commit"
  /\ Staged = head
  /\ Raised
  /\ UNCHANGED <<head, tree, committed>>

\* Signing fails, or the commit is made and its hash cannot be read.
CommitRaised ==
  /\ GitFails
  /\ pc = "commit"
  /\ Raised
  /\ \/ UNCHANGED <<head, committed>>
     \/ Staged # head /\ head' = Staged /\ committed' = committed \cup {Comment}
  /\ UNCHANGED tree

TriageOver ==
  /\ pc = "read"
  /\ Comment > Len(Commented)
  /\ pc' = "over"
  /\ UNCHANGED <<settings, head, tree, files, replies, committed>>

Over == pc \in {"over", "raised"} /\ UNCHANGED vars

Next ==
  \/ Unreadable \/ Ask
  \/ LLMFailed \/ LLMRaised
  \/ Skip \/ SkipRaised \/ Dismiss
  \/ \E entries \in UNION {[1..n -> Entries] : n \in 0..MaxFiles} : Fix(entries)
  \/ RefuseTruncated \/ ResetRaised \/ NothingApplied \/ Preview \/ Apply \/ ApplyRaised
  \/ Commit \/ NothingToCommit \/ CommitRaised
  \/ TriageOver
  \/ Over

Spec == Init /\ [][Next]_vars

-----------------------------------------------------------------------------
(* Properties *)

\* Whatever happened to the comments before - refused, previewed, committed -
\* the model is asked about the files of HEAD, and its fix is applied to them:
\* no leftover of one verdict gets into the commit of the next.
AskedAboutHead ==
  pc \in {"asked", "fix"} => \A f \in Files : ~Untracked(f) => tree[f] = head[f]

\* The entries of the verdict that differ from a file of HEAD as it is read.
Effective(f) ==
  {i \in DOMAIN files : files[i].path = f /\ files[i].content # ReadText(head[f])}

\* A commit is its verdict, no more and no less, as far as git looks: every file
\* the verdict changes holds what its last such entry gives, every other file is
\* as it was, and no commit is empty.  New files that are ignored are left out
\* of it, though the reply says "Addressed" for them as well.
CommitIsItsVerdict ==
  [][head' # head \/ committed' # committed =>
       /\ head' # head
       /\ \A f \in Files :
            head'[f] = IF Untracked(f) \/ Effective(f) = {}
                         THEN head[f] ELSE files[Max(Effective(f))].content]_vars

\* A fix that is answered with "already appears to address this" is, for each
\* file it names that git looks at, what HEAD holds, but for the ends of lines;
\* in a dry run as well, where earlier fixes were only previewed.  It says nothing
\* of what the code drops (malformed entries and paths out of the clone) nor of
\* new files that git ignores: a fix of these alone is answered the same way.
DismissedFixIsInHead ==
  [][pc = "fix" /\ replies' # replies /\ Last(replies') = "dismiss" =>
       \A i \in Inside :
         ~Untracked(files[i].path) => ReadText(head[files[i].path]) = files[i].content]_vars

\* The loop does for the processor what PrProcessing takes it to do.
Outcome == INSTANCE TriageOutcome WITH
  NumComments <- Len(Commented),
  preview <- settings.dry_run,
  decisions <- replies,
  step <- CASE pc = "over" -> "push" [] pc = "raised" -> "error" [] OTHER -> "triage"

OutcomeKept == Outcome!Spec

=============================================================================
