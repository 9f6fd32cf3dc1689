----------------------------- MODULE ReleasePublish -----------------------------
(***************************************************************************)
(* publish of scripts/release_assets.py: a run of the tag workflow brings  *)
(* the release of its tag from nothing, or from whatever an earlier run    *)
(* left, to a published release with the complete asset set of its build.  *)
(*                                                                         *)
(* Every call to GitHub is a step.  Between two calls people may publish   *)
(* the draft, move the tag, attach or clean up assets; a run may die at    *)
(* any point, and an upload that it had begun may still finish on the      *)
(* server when the next run is at work.  The workflow's concurrency group  *)
(* admits one run of a tag at a time; runs follow one another, with the    *)
(* same build (failed jobs retried) or another (everything run again).     *)
(*                                                                         *)
(* The assets are numbered in the order of their upload; the last is the   *)
(* completion manifest.  An asset's name, size and digest are abstracted   *)
(* to its number and to whose bytes it holds: a build's, or Foreign ones,  *)
(* that match no build.  The server names a record by an id of its own,    *)
(* and an upload in progress, a run's or a person's, is to the API an      *)
(* empty starter like one that failed.                                     *)
(***************************************************************************)
EXTENDS Integers, FiniteSets

CONSTANTS Last,         \* number of assets; the manifest is the last
          Builds,       \* builds of the tag's plugin, byte by byte different
          Commits,      \* commits the tag may point at
          CommitOf,     \* build -> the commit it was built from
          Ids,          \* bound: asset ids the server uses (they are reused here)
          MaxFaults,    \* bound: deaths of runs and failures of uploads
          MaxMeddling,  \* bound: interventions of people
          Foreign,      \* bytes of nobody's build
          Nothing       \* no asset, no publisher

ASSUME NamesAssumption == Last \in Nat \ {0}
ASSUME BuildsAssumption == /\ CommitOf \in [Builds -> Commits]
                           /\ Foreign \notin Builds /\ Nothing \notin Builds
ASSUME BoundsAssumption == MaxFaults \in Nat /\ MaxMeddling \in Nat
ASSUME NothingAssumption ==
    Nothing \notin [id : Ids, by : Builds \cup {Foreign}, state : {"open", "starter", "uploaded"}]

Names    == 1 .. Last
States   == {"open", "starter", "uploaded"}  \* the first two are "starter" to the API
Asset    == [id : Ids, by : Builds \cup {Foreign}, state : States]

VARIABLES release,    \* absent, draft or published
          tag,        \* the commit the tag points at
          asset,      \* name -> its record on the release, or Nothing
          at, stage,  \* the run: where it is, and to what end it validates
          build,      \* the build the run publishes, kept when the run is over
          next,       \* the asset of the loop
          draft,      \* release["draft"] as last read
          seen,       \* the id of the record it deletes or fills
          outcome,    \* how the last run ended
          publisher,  \* the build whose run sent the publication, if nothing was torn
          torn,       \* somebody removed an asset since a run last looked at them all
          late,       \* assets the run has touched since somebody intervened
          overtaken,  \* the record the run is to delete was finished after the listing
          faults, meddled

remote == <<release, tag, asset>>
run    == <<at, stage, build, next, draft, seen, outcome>>
ghosts == <<publisher, torn, late, overtaken>>
bounds == <<faults, meddled>>
vars   == <<remote, run, ghosts, bounds>>

--------------------------------------------------------------------------------
(* What a listing says                                                      *)

Exists(n)   == asset[n] # Nothing
Uploaded(n) == Exists(n) /\ asset[n].state = "uploaded"

(* matches: uploaded, and size and digest are those of build b.             *)
Matches(n, b) == Uploaded(n) /\ asset[n].by = b

Whole(b) == \A n \in Names : Matches(n, b)

(* Somebody has published the release, or moved the tag off the run's build.*)
Intervened == release = "published" \/ tag # CommitOf[build]

Touch(n) == late' = IF Intervened THEN late \cup {n} ELSE late

--------------------------------------------------------------------------------
(* Control                                                                  *)

Goto(l)  == at' = l /\ UNCHANGED outcome
End(o)   == at' = "idle" /\ outcome' = o
Fail     == End("failed")

(* validate_remote, and to what end.                                        *)
Validate(s) == Goto("release") /\ stage' = s

(* The loop goes to the next asset, or past the last.                       *)
Advance == IF next < Last THEN Validate("each") /\ next' = next + 1
                          ELSE Validate("final") /\ UNCHANGED next

--------------------------------------------------------------------------------
(* A run begins                                                             *)

(* The local checks pass: the manifest and the files are the build's.       *)
Begin(b) == /\ at = "idle"
            /\ Goto("start") /\ build' = b
            /\ stage' = "first" /\ next' = 1 /\ draft' = FALSE /\ seen' = Nothing
            /\ late' = {} /\ overtaken' = FALSE
            /\ UNCHANGED <<remote, publisher, torn, bounds>>

CheckTag == /\ at = "start"
            /\ IF tag = CommitOf[build] THEN Goto("find") ELSE Fail
            /\ UNCHANGED <<remote, stage, build, next, draft, seen, ghosts, bounds>>

FindRelease == /\ at = "find"
               /\ Goto(IF release = "absent" THEN "create" ELSE "release")
               /\ UNCHANGED <<remote, stage, build, next, draft, seen, ghosts, bounds>>

CreateDraft == /\ at = "create"
               /\ release' = "draft"
               /\ Goto("release")
               /\ UNCHANGED <<tag, asset, stage, build, next, draft, seen, ghosts, bounds>>

(* validate_remote: first the release,                                      *)
ReadRelease == /\ at = "release"
               /\ draft' = (release = "draft")
               /\ Goto("tag")
               /\ UNCHANGED <<remote, stage, build, next, seen, ghosts, bounds>>

(* then the tag; and what follows in publish.                               *)
Proceed ==
    \/ stage = "first" /\ Goto(IF draft THEN "conflicts" ELSE "compare") /\ UNCHANGED stage
    \/ stage = "each" /\ draft /\ Goto("list") /\ UNCHANGED stage
    \/ stage = "final" /\ Goto("verify") /\ UNCHANGED stage
    \/ stage = "publish" /\ draft /\ Goto("publish") /\ UNCHANGED stage
    \/ stage = "publish" /\ ~draft /\ Validate("confirm")
    \/ stage = "confirm" /\ ~draft /\ End("succeeded") /\ UNCHANGED stage

TagCheckedOnce == \/ stage = "first" /\ tag # CommitOf[build]
                  \/ stage = "each" /\ ~draft
                  \/ stage = "confirm" /\ draft

TagMoved == tag # CommitOf[build]

(* validate_remote fails, or publish does on what it returned.              *)
Unexpected == \/ TagMoved
              \/ stage = "each" /\ ~draft
              \/ stage = "confirm" /\ draft

ReadTag == /\ at = "tag"
           /\ IF Unexpected THEN Fail /\ UNCHANGED stage ELSE Proceed
           /\ UNCHANGED <<remote, build, next, draft, seen, ghosts, bounds>>

(* A release that is published already is compared and left alone.          *)
Compare == /\ at = "compare"
           /\ End(IF Whole(build) THEN "succeeded" ELSE "failed")
           /\ torn' = FALSE
           /\ UNCHANGED <<remote, stage, build, next, draft, seen, publisher, late, overtaken, bounds>>

(* Conflicts fail before the first mutation.                                *)
Conflicts == /\ at = "conflicts"
             /\ IF \E n \in Names : Uploaded(n) /\ ~Matches(n, build)
                THEN Fail /\ UNCHANGED stage
                ELSE Validate("each")
             /\ UNCHANGED <<remote, build, next, draft, seen, ghosts, bounds>>

--------------------------------------------------------------------------------
(* The loop over the assets                                                 *)

(* Once nothing of that name is there: the manifest waits for the others.   *)
ToUpload == Goto(IF next = Last THEN "recheck" ELSE "upload")

ListMatches == /\ at = "list" /\ Matches(next, build)
               /\ Advance
               /\ UNCHANGED <<remote, build, draft, seen, ghosts, bounds>>

ListMissing == /\ at = "list" /\ ~Exists(next)
               /\ ToUpload
               /\ UNCHANGED <<remote, stage, build, next, draft, seen, ghosts, bounds>>

ListStarterRefused == /\ at = "list" /\ Exists(next) /\ ~Uploaded(next)
                      /\ Fail
                      /\ UNCHANGED <<remote, stage, build, next, draft, seen, ghosts, bounds>>

ListStarter == /\ at = "list" /\ Exists(next) /\ ~Uploaded(next)
               /\ seen' = asset[next].id /\ overtaken' = FALSE
               /\ Goto("delete")
               /\ UNCHANGED <<remote, stage, build, next, draft, publisher, torn, late, bounds>>

(* delete_starter refuses an asset that is not an empty starter.            *)
ListConflict == /\ at = "list" /\ Uploaded(next) /\ ~Matches(next, build)
                /\ Fail
                /\ UNCHANGED <<remote, stage, build, next, draft, seen, ghosts, bounds>>

DeleteByName == /\ at = "delete"
                /\ asset' = [asset EXCEPT ![next] = Nothing]
                /\ ToUpload
                /\ Touch(next) /\ overtaken' = FALSE
                /\ UNCHANGED <<release, tag, stage, build, next, draft, seen, publisher, torn, bounds>>

(* DELETE of the id seen in the listing; it may have gone, or have finished.*)
Delete == /\ at = "delete"
          /\ IF Exists(next) /\ asset[next].id = seen
             THEN /\ asset' = [asset EXCEPT ![next] = Nothing]
                  /\ ToUpload
                  /\ Touch(next)
             ELSE Fail /\ UNCHANGED <<asset, late>>
          /\ overtaken' = FALSE
          /\ UNCHANGED <<release, tag, stage, build, next, draft, seen, publisher, torn, bounds>>

RecheckNothing == /\ at = "recheck"
                  /\ Goto("upload")
                  /\ torn' = FALSE
                  /\ UNCHANGED <<remote, stage, build, next, draft, seen, publisher, late, overtaken, bounds>>

(* The manifest is uploaded when all the others are there.                  *)
Recheck == /\ at = "recheck"
           /\ IF \A n \in 1 .. Last - 1 : Matches(n, build) THEN Goto("upload") ELSE Fail
           /\ torn' = FALSE
           /\ UNCHANGED <<remote, stage, build, next, draft, seen, publisher, late, overtaken, bounds>>

(* The server opens a record, unless the name is taken.                     *)
Upload == /\ at = "upload"
          /\ IF Exists(next)
             THEN Fail /\ UNCHANGED <<asset, seen, late>>
             ELSE /\ \E i \in Ids :
                        /\ \A n \in Names : Exists(n) => asset[n].id # i
                        /\ i # seen
                        /\ asset' = [asset EXCEPT ![next] = [id |-> i, by |-> build, state |-> "open"]]
                        /\ seen' = i
                  /\ Goto("uploading")
                  /\ Touch(next)
          /\ UNCHANGED <<release, tag, stage, build, next, draft, publisher, torn, overtaken, bounds>>

(* The record the run is filling is still there.                            *)
Filling == at = "uploading" /\ Exists(next) /\ asset[next].id = seen

UploadEnds == /\ Filling
              /\ asset' = [asset EXCEPT ![next].state = "uploaded"]
              /\ Advance
              /\ UNCHANGED <<release, tag, build, draft, seen, ghosts, bounds>>

(* The bytes stored are not the ones sent: the digest tells.                *)
UploadCorrupted == /\ Filling
                   /\ faults < MaxFaults /\ faults' = faults + 1
                   /\ asset' = [asset EXCEPT ![next].state = "uploaded", ![next].by = Foreign]
                   /\ Fail
                   /\ UNCHANGED <<release, tag, stage, build, next, draft, seen, ghosts, meddled>>

(* The upload fails and leaves an empty starter.                            *)
UploadFails == /\ Filling
               /\ faults < MaxFaults /\ faults' = faults + 1
               /\ asset' = [asset EXCEPT ![next].state = "starter"]
               /\ Fail
               /\ UNCHANGED <<release, tag, stage, build, next, draft, seen, ghosts, meddled>>

(* Somebody removed the record meanwhile.                                   *)
UploadLost == /\ at = "uploading" /\ ~Filling
              /\ Fail
              /\ UNCHANGED <<remote, stage, build, next, draft, seen, ghosts, bounds>>

--------------------------------------------------------------------------------
(* Publication                                                              *)

VerifyManifestOnly == /\ at = "verify"
                      /\ IF Matches(Last, build) THEN Validate("publish") ELSE Fail /\ UNCHANGED stage
                      /\ torn' = FALSE
                      /\ UNCHANGED <<remote, build, next, draft, seen, publisher, late, overtaken, bounds>>

Verify == /\ at = "verify"
          /\ IF Whole(build) THEN Validate("publish") ELSE Fail /\ UNCHANGED stage
          /\ torn' = FALSE
          /\ UNCHANGED <<remote, build, next, draft, seen, publisher, late, overtaken, bounds>>

Publish == /\ at = "publish"
           /\ release' = "published"
           /\ publisher' = IF torn THEN Nothing ELSE build
           /\ Validate("confirm")
           /\ UNCHANGED <<tag, asset, build, next, draft, seen, torn, late, overtaken, bounds>>

--------------------------------------------------------------------------------
(* Faults, the server and people                                            *)

(* The run is cancelled, times out, or loses an answer: a call that it had  *)
(* sent has had its effect, or has none.                                    *)
Die == /\ at # "idle"
       /\ faults < MaxFaults /\ faults' = faults + 1
       /\ Fail
       /\ UNCHANGED <<remote, stage, build, next, draft, seen, ghosts, meddled>>

(* An upload that no run waits for is still on its way: its run has died,   *)
(* or it is a person's.                                                     *)
Orphan(n) == Exists(n) /\ asset[n].state = "open" /\ ~(Filling /\ n = next)

(* It is stored, or stored wrong, or fails.                                 *)
OrphanEnds(n) ==
    /\ Orphan(n)
    /\ \/ asset' = [asset EXCEPT ![n].state = "starter"] /\ UNCHANGED overtaken
       \/ /\ \E bytes \in {asset[n].by, Foreign} :
                asset' = [asset EXCEPT ![n] = [id |-> @.id, by |-> bytes, state |-> "uploaded"]]
          /\ overtaken' = (overtaken \/ (at = "delete" /\ n = next /\ asset[n].id = seen))
    /\ UNCHANGED <<release, tag, run, publisher, torn, late, bounds>>

Meddle == meddled < MaxMeddling /\ meddled' = meddled + 1

PublishByHand == /\ Meddle
                 /\ release = "draft" /\ release' = "published"
                 /\ late' = {}
                 /\ UNCHANGED <<tag, asset, run, publisher, torn, overtaken, faults>>

MoveTag == /\ Meddle
           /\ \E c \in Commits \ {tag} : tag' = c
           /\ late' = {}
           /\ UNCHANGED <<release, asset, run, publisher, torn, overtaken, faults>>

(* A person begins to upload an asset; OrphanEnds ends it.                  *)
Attach(n) == /\ Meddle
             /\ release # "absent" /\ ~Exists(n)
             /\ \E i \in Ids :
                   /\ \A m \in Names : Exists(m) => asset[m].id # i
                   /\ i # seen
                   /\ asset' = [asset EXCEPT ![n] = [id |-> i, by |-> Foreign, state |-> "open"]]
             /\ UNCHANGED <<release, tag, run, ghosts, faults>>

(* Any asset of a draft at any time, or all of them when no run is at work.*)
Remove(n) == /\ Meddle
             /\ release = "draft" /\ Exists(n)
             /\ asset' = [asset EXCEPT ![n] = Nothing]
             /\ torn' = TRUE
             /\ UNCHANGED <<release, tag, run, publisher, late, overtaken, faults>>

CleanUp == /\ Meddle
           /\ release = "draft" /\ at = "idle"
           /\ asset' = [n \in Names |-> Nothing]
           /\ torn' = TRUE
           /\ UNCHANGED <<release, tag, run, publisher, late, overtaken, faults>>

--------------------------------------------------------------------------------

Init == /\ release = "absent" /\ tag \in Commits
        /\ asset = [n \in Names |-> Nothing]
        /\ at = "idle" /\ stage = "first" /\ build \in Builds /\ next = 1
        /\ draft = FALSE /\ seen = Nothing /\ outcome = "none"
        /\ publisher = Nothing /\ torn = FALSE /\ late = {} /\ overtaken = FALSE
        /\ faults = 0 /\ meddled = 0

(* What the run does when nothing goes wrong with it.                       *)
Run == \/ CheckTag \/ FindRelease \/ CreateDraft \/ ReadRelease \/ ReadTag \/ Compare \/ Conflicts
       \/ ListMatches \/ ListMissing \/ ListStarter \/ ListConflict \/ Delete
       \/ Recheck \/ Upload \/ UploadEnds \/ UploadLost
       \/ Verify \/ Publish

Environment == \/ UploadCorrupted \/ UploadFails \/ Die
               \/ \E n \in Names : OrphanEnds(n) \/ Attach(n) \/ Remove(n)
               \/ PublishByHand \/ MoveTag \/ CleanUp

Next == (\E b \in Builds : Begin(b)) \/ Run \/ Environment

Spec == Init /\ [][Next]_vars

(* Runs proceed, the server ends every upload, and failed jobs are retried. *)
Fairness == /\ WF_vars(Run)
            /\ \A n \in Names : WF_vars(OrphanEnds(n))
            /\ \A b \in Builds : SF_vars(Begin(b))

FairSpec == Spec /\ Fairness

--------------------------------------------------------------------------------
(* Properties                                                               *)

Labels == {"idle", "start", "find", "create", "release", "tag", "compare", "conflicts", "list",
           "delete", "recheck", "upload", "uploading", "verify", "publish"}
Stages == {"first", "each", "final", "publish", "confirm"}

(* Types.                                                                   *)
TypeOK == /\ release \in {"absent", "draft", "published"} /\ tag \in Commits
          /\ asset \in [Names -> Asset \cup {Nothing}]
          /\ at \in Labels /\ stage \in Stages /\ build \in Builds /\ next \in Names
          /\ draft \in BOOLEAN /\ seen \in Ids \cup {Nothing}
          /\ outcome \in {"none", "failed", "succeeded"}
          /\ publisher \in Builds \cup {Nothing} /\ torn \in BOOLEAN /\ late \subseteq Names
          /\ overtaken \in BOOLEAN
          /\ faults \in 0 .. MaxFaults /\ meddled \in 0 .. MaxMeddling

(* What a run has published has every asset, all of one build, and stays so;*)
(* and a run that reports success has found its own build published.  Only  *)
(* a removal after the last look at the assets escapes it.                  *)
PublishedIsWhole ==
    /\ publisher # Nothing => release = "published" /\ Whole(publisher)
    /\ outcome = "succeeded" /\ at = "idle" /\ ~torn => release = "published" /\ Whole(build)

(* The completion manifest of a build appears, were it only as an upload    *)
(* that fails, when every other asset of the build is there.                *)
ManifestIsLast ==
    [][\A b \in Builds :
          ~Exists(Last) /\ Exists(Last)' /\ asset'[Last].by = b /\ ~torn =>
              \A n \in 1 .. Last - 1 : Matches(n, b)]_vars

(* Once the tag has moved or the release was published by someone else, the *)
(* run touches one more asset at the most.                                  *)
InterferenceIsNoticed == \A m, n \in late : m = n

(* A run never replaces a finished asset, a person's, another build's or    *)
(* one stored wrong, and never removes one, but for the very record that it *)
(* had listed as an empty starter and whose upload ended before the DELETE  *)
(* came: GitHub deletes by id, whatever has become of the record.           *)
FinishedIsKept ==
    [][\A n \in Names : Uploaded(n) /\ asset'[n] # asset[n] =>
          \/ meddled' # meddled
          \/ asset'[n] = Nothing /\ n = next /\ asset[n].id = seen /\ overtaken]_vars

(* No build of the tag's commit can be completed: for each some asset is in *)
(* the way, which a person has to remove.                                   *)
Blocked == \A b \in Builds : CommitOf[b] = tag =>
              \E n \in Names : Uploaded(n) /\ ~Matches(n, b)

(* Retried often enough, a release is published in the end, whatever died   *)
(* or failed before, unless an asset is in the way.                         *)
RetryCompletes == <>[](release = "published" \/ Blocked)
================================================================================
