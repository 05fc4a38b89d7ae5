------------------------------- MODULE Release -------------------------------
(***************************************************************************)
(* Cutting releases: the workflow of .github/workflows/release.yaml with   *)
(* the plan and apply of scripts/prepare-release.mjs, run again and again, *)
(* while commits come to main and any step may fail.                       *)
(*                                                                         *)
(* Runs exclude each other (the concurrency group).  History is linear,    *)
(* git is external: a push of main is refused unless it adds to what is    *)
(* there, and what a run commits and tags locally is gone when it ends.    *)
(* Of a commit message only what commitBump takes it for is kept, of       *)
(* CHANGELOG.md the headings.  The notes are left out: whenever plan does  *)
(* not fail there are some.                                                *)
(***************************************************************************)
EXTENDS Integers, FiniteSets, Sequences

CONSTANTS
  Kind,             \* the kinds of commits that come to main
  FirstVersion,     \* that of Cargo.toml to begin with, <<major, minor, patch>>
  BreakingAsMajor,  \* RELEASE_PRE_1_0_BREAKING_AS = major
  MaxPushes,        \* commits that come to main, at most
  MaxFaults,        \* failing steps, at most
  MaxDay            \* days; nothing fails on the last one

ASSUME ReleaseAssumption ==
  /\ FirstVersion \in Nat \X Nat \X Nat
  /\ BreakingAsMajor \in BOOLEAN
  /\ MaxPushes \in Nat /\ MaxFaults \in Nat /\ MaxDay \in Nat \ {0}

VARIABLES
  main,      \* the commits of main, with the manifest and the changelog in them
  tags,      \* the tags pushed: version, and index of the commit in main
  releases,  \* the versions with a GitHub release
  step,      \* the step that the run comes to, "none" between runs
  dry,       \* its input dry_run
  base,      \* the commit that the release job works on, 0 before
  version,   \* what plan has put out, Unplanned before
  tree,      \* the manifest and the changelog in the working directory
  day, pushes, faults

remote == <<main, tags, releases>>
job    == <<base, version, tree>>
run    == <<step, dry, job>>
bounds == <<pushes, faults>>
vars   == <<remote, run, day, bounds>>

Unplanned == <<>>
NoTree    == <<>>
Steps == {"test", "checkout", "plan", "apply", "push", "push_tag", "release", "end"}

Version == Nat \X Nat \X Nat
Heading == [version : Version, day : 1..MaxDay]
Tree    == [manifest : Version, log : SUBSET Heading]
TreeOf(c) == [manifest |-> c.manifest, log |-> c.log]

\* The types of the state; a run has what its step needs, and leaves nothing.
TypeOK ==
  /\ main \in Seq([kind : Kind \cup {"other", "release"}, manifest : Version, log : SUBSET Heading])
  /\ tags \subseteq [version : Version, at : 1..Len(main)]
  /\ releases \subseteq {t.version : t \in tags}
  /\ step \in Steps \cup {"none"} /\ dry \in BOOLEAN
  /\ base \in IF step \in {"none", "test", "checkout"} THEN {0} ELSE 1..Len(main)
  /\ tree \in IF base = 0 THEN {NoTree} ELSE Tree
  /\ version \in IF step \in {"apply", "push", "push_tag", "release", "end"}
                 THEN Version ELSE {Unplanned}
  /\ day \in 1..MaxDay /\ pushes \in 0..MaxPushes /\ faults \in 0..MaxFaults

-----------------------------------------------------------------------------
(* prepare-release.mjs *)

\* commitBump
Breaking == {"feat!", "chore!", "breaking footer"}
Patching == {"fix", "perf"}

commitBump(kind) ==
  CASE kind \in Breaking -> "major"
    [] kind = "feat"     -> "minor"
    [] kind \in Patching -> "patch"
    [] OTHER             -> "none"

\* Mutant of strongestBump: the last commit that bumps anything decides.
strongestBumpLast(from, to) ==
  LET bumping == {k \in from..to : commitBump(main[k].kind) # "none"}
  IN  IF bumping = {} THEN "none"
      ELSE commitBump(main[CHOOSE k \in bumping : \A j \in bumping : j <= k].kind)

priority == [none |-> 0, patch |-> 1, minor |-> 2, major |-> 3]

\* Of the commits from..to of main.
strongestBump(from, to) ==
  LET bumps == {commitBump(main[k].kind) : k \in from..to} \cup {"none"}
  IN  CHOOSE b \in bumps : \A c \in bumps : priority[c] <= priority[b]

incrementVersion(v, bump) ==
  CASE bump = "major" /\ (v[1] # 0 \/ BreakingAsMajor) -> <<v[1] + 1, 0, 0>>
    [] bump = "minor" \/ (bump = "major" /\ v[1] = 0 /\ ~BreakingAsMajor)
                        -> <<v[1], v[2] + 1, 0>>
    [] bump = "patch"   -> <<v[1], v[2], v[3] + 1>>

\* git describe: the last tag before the commit, in a linear history.
TagsUpTo(n)  == {t \in tags : t.at <= n}
latestTag(n) == CHOOSE t \in TagsUpTo(n) : \A u \in TagsUpTo(n) : u.at <= t.at

Bump == strongestBump(latestTag(base).at + 1, base)

-----------------------------------------------------------------------------

Init ==
  /\ main = <<[kind |-> "other", manifest |-> FirstVersion, log |-> {}]>>
  /\ tags = {} /\ releases = {}
  /\ step = "none" /\ dry = FALSE
  /\ base = 0 /\ version = Unplanned /\ tree = NoTree
  /\ day = 1 /\ pushes = 0 /\ faults = 0

Goes(from, to) == step = from /\ step' = to /\ UNCHANGED dry

\* The runner, and all that is local to the run, is gone.
Over(from) ==
  /\ step \in from
  /\ step' = "none" /\ dry' = FALSE
  /\ base' = 0 /\ version' = Unplanned /\ tree' = NoTree

\* A workflow_dispatch on main.
Dispatch(dryRun) ==
  /\ step = "none"
  /\ step' = "test"
  /\ dry' = dryRun
  /\ UNCHANGED <<remote, job, day, bounds>>

\* build, test, lint and audit, of the commit that main was at the dispatch.
Test ==
  /\ Goes("test", "checkout")
  /\ UNCHANGED <<remote, job, day, bounds>>

\* The release job checks out main.
Checkout ==
  /\ Goes("checkout", "plan")
  /\ base' = Len(main)
  /\ tree' = TreeOf(main[Len(main)])
  /\ UNCHANGED <<remote, version, day, bounds>>

PlanFirst ==
  /\ Goes("plan", "apply")
  /\ TagsUpTo(base) = {}
  /\ version' = tree.manifest
  /\ UNCHANGED <<remote, base, tree, day, bounds>>

PlanNext ==
  /\ Goes("plan", "apply")
  /\ TagsUpTo(base) # {}
  /\ Bump # "none"
  /\ version' = incrementVersion(latestTag(base).version, Bump)
  /\ UNCHANGED <<remote, base, tree, day, bounds>>

\* No feat, fix, perf, or breaking changes found since the latest release tag.
NothingToRelease ==
  /\ Over({"plan"})
  /\ TagsUpTo(base) # {}
  /\ Bump = "none"
  /\ UNCHANGED <<remote, day, bounds>>

\* Mutant of HeadingTaken: whatever its date.
HeadingTakenEver == \E h \in tree.log : h.version = version

\* updateChangelog looks for the heading, in which there is the date.
HeadingTaken == [version |-> version, day |-> day] \in tree.log

\* Mutant of Apply: a manifest that has been updated before is kept.
ApplyKeepsManifest ==
  /\ Goes("apply", IF dry THEN "end" ELSE "push")
  /\ ~HeadingTaken
  /\ tree' = [manifest |-> IF tree.log = {} THEN version ELSE tree.manifest,
              log |-> tree.log \cup {[version |-> version, day |-> day]}]
  /\ UNCHANGED <<remote, base, version, day, bounds>>

\* Commit and tag follow, but are local; a dry run ends here.
Apply ==
  /\ Goes("apply", IF dry THEN "end" ELSE "push")
  /\ ~HeadingTaken
  /\ tree' = [manifest |-> version,
              log |-> tree.log \cup {[version |-> version, day |-> day]}]
  /\ UNCHANGED <<remote, base, version, day, bounds>>

ApplyFails ==
  /\ Over({"apply"})
  /\ HeadingTaken
  /\ UNCHANGED <<remote, day, bounds>>

Commit == [kind |-> "release", manifest |-> tree.manifest, log |-> tree.log]

\* git push origin HEAD:main
PushMain ==
  /\ Goes("push", "push_tag")
  /\ Len(main) = base
  /\ main' = Append(main, Commit)
  /\ UNCHANGED <<tags, releases, job, day, bounds>>

\* Mutant of PushRefused: main is checked out again, with the version as planned.
PushRefusedAgain ==
  /\ Goes("push", "checkout")
  /\ Len(main) # base
  /\ UNCHANGED <<remote, job, day, bounds>>

PushRefused ==
  /\ Over({"push"})
  /\ Len(main) # base
  /\ UNCHANGED <<remote, day, bounds>>

\* git push origin "${TAG}"; the commit is the one after base.
PushTag ==
  /\ Goes("push_tag", "release")
  /\ tags' = tags \cup {[version |-> version, at |-> base + 1]}
  /\ UNCHANGED <<main, releases, job, day, bounds>>

\* gh release create, which has the Publish workflow run.
CreateRelease ==
  /\ Goes("release", "end")
  /\ releases' = releases \cup {version}
  /\ UNCHANGED <<main, tags, job, day, bounds>>

RunEnds ==
  /\ Over({"end"})
  /\ UNCHANGED <<remote, day, bounds>>

\* The network, a job of the tests, the runner.
StepFails ==
  /\ Over(Steps \ {"end"})
  /\ faults < MaxFaults /\ day < MaxDay
  /\ faults' = faults + 1
  /\ UNCHANGED <<remote, day, pushes>>

\* A pull request is merged.
Merge(kind) ==
  /\ pushes < MaxPushes
  /\ pushes' = pushes + 1
  /\ main' = Append(main, [main[Len(main)] EXCEPT !.kind = kind])
  /\ UNCHANGED <<tags, releases, run, day, faults>>

NextDay ==
  /\ day < MaxDay
  /\ day' = day + 1
  /\ UNCHANGED <<remote, run, bounds>>

RunStep ==
  \/ Test \/ Checkout \/ PlanFirst \/ PlanNext \/ NothingToRelease \/ Apply \/ ApplyFails
  \/ PushMain \/ PushRefused \/ PushTag \/ CreateRelease \/ RunEnds

Next ==
  \/ RunStep \/ StepFails \/ NextDay
  \/ \E d \in BOOLEAN : Dispatch(d)
  \/ \E k \in Kind : Merge(k)

\* A run goes on, days pass, and maintainers do run the workflow for real.
Fairness == WF_vars(RunStep) /\ SF_vars(Dispatch(FALSE)) /\ WF_vars(NextDay)

Spec == Init /\ [][Next]_vars /\ Fairness

-----------------------------------------------------------------------------

\* The version numbers that may follow v, of which the commits decide one.
Follows(v, w) ==
  \/ w = <<v[1] + 1, 0, 0>> \/ w = <<v[1], v[2] + 1, 0>> \/ w = <<v[1], v[2], v[3] + 1>>

\* The part of a version that a commit changes: 1, 2, or 3, or 4 for none.
PartOf(v, kind) ==
  CASE kind \in Breaking -> IF v[1] = 0 /\ ~BreakingAsMajor THEN 2 ELSE 1
    [] kind = "feat"     -> 2
    [] kind \in Patching -> 3
    [] OTHER             -> 4

\* The version of tag t follows that of tag p in the first part that some commit
\* between the two changes.
SaysChanges(p, t) ==
  /\ Follows(p.version, t.version)
  /\ \E j \in 1..3 :
       /\ t.version[j] # p.version[j] /\ \A i \in 1..(j - 1) : t.version[i] = p.version[i]
       /\ \E k \in p.at + 1..t.at : PartOf(p.version, main[k].kind) = j
       /\ \A k \in p.at + 1..t.at : PartOf(p.version, main[k].kind) >= j

\* A released version says what has changed since the one before it, whatever came
\* to main during the run and whatever runs before it left there (RELEASE.md,
\* Versioning).
VersionSaysChanges ==
  \A t \in tags :
    IF TagsUpTo(t.at - 1) = {} THEN t.version = FirstVersion
    ELSE SaysChanges(latestTag(t.at - 1), t)

\* The commit of a tag has its version in the manifest, its heading in the
\* changelog, and those of all tags before it (RELEASE.md: "commits Cargo.toml,
\* Cargo.lock, and CHANGELOG.md back to main", "checks that the tag version
\* matches Cargo.toml").
TagIsPrepared ==
  \A t \in tags :
    /\ main[t.at].manifest = t.version
    /\ {u.version : u \in TagsUpTo(t.at)} \subseteq {h.version : h \in main[t.at].log}

\* The commits that a release is due for.
Due ==
  LET last == IF TagsUpTo(Len(main)) = {} THEN 0 ELSE latestTag(Len(main)).at
  IN  {k \in last + 1..Len(main) : last = 0 \/ commitBump(main[k].kind) # "none"}

\* Whatever failed between the pushes of an earlier run, in the end all commits
\* that a release is due for are tagged.  A run that failed before the push of its
\* tag is taken up again by the next; of one that failed after it nothing is due.
DueIsTagged == <>[](Due = {})

=============================================================================
