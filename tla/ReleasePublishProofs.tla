-------------------------- MODULE ReleasePublishProofs --------------------------
(***************************************************************************)
(* Theorems about ReleasePublish, for any number of assets, builds and     *)
(* commits, and for any number of faults and interventions.                *)
(***************************************************************************)
EXTENDS ReleasePublish, TLAPS

Others(b) == \A n \in 1 .. Last - 1 : Matches(n, b)

(* What a run is about to delete is finished only if it was not when listed,*)
(* and what it fills is its own and not finished.                           *)
OwnRecords ==
    /\ at = "delete" /\ Uploaded(next) /\ asset[next].id = seen => overtaken
    /\ Filling => asset[next].by = build /\ asset[next].state = "open"

(* Where the run is fits the end to which it validates.                     *)
Placed ==
    /\ at \in {"start", "find", "create", "compare", "conflicts"} => stage = "first"
    /\ at \in {"list", "delete", "recheck", "upload", "uploading"} => stage = "each"
    /\ at = "verify" => stage = "final"
    /\ at = "publish" => stage = "publish"

(* What a run has read of the release; a published release stays so.        *)
ReadBack ==
    /\ at \notin {"idle", "start", "find", "create"} => release # "absent"
    /\ at = "create" => release = "absent"
    /\ at = "tag" /\ ~draft => release = "published"
    /\ at = "compare" => release = "published"

(* What a run has verified lasts, but for removals.                         *)
Verified ==
    /\ at = "upload" /\ next = Last => torn \/ Others(build)
    /\ at \in {"release", "tag", "publish"} /\ stage \in {"publish", "confirm"} => torn \/ Whole(build)

(* No run changes a release that a run has published.                       *)
Closed ==
    publisher # Nothing =>
        /\ at \in {"idle", "start", "find", "release", "tag", "compare"}
        /\ at \in {"release", "tag"} => stage \in {"first", "confirm"}
        /\ at = "tag" /\ stage = "first" => ~draft

(* An intervention that was followed by a mutation is still there to see.   *)
Noticed ==
    /\ late # {} => Intervened
    /\ at \in {"list", "delete"} => late = {}
    /\ at \in {"recheck", "upload", "uploading"} => late \subseteq {next}
    /\ at = "tag" /\ stage = "each" /\ late # {} => ~draft \/ tag # CommitOf[build]

IInv == TypeOK /\ OwnRecords /\ Placed /\ ReadBack /\ Verified /\ Closed /\ Noticed
            /\ PublishedIsWhole /\ InterferenceIsNoticed

(* There is a first asset.                                                  *)
LEMMA OneIsName == 1 \in Names
  BY NamesAssumption DEF Names

(* At first there is no release and no run.                                 *)
LEMMA InitIInv == Init => IInv
<1> SUFFICES ASSUME Init PROVE IInv
  OBVIOUS
<1> USE NamesAssumption, BuildsAssumption, BoundsAssumption DEF Init, Exists
<1>1. TypeOK
  <2>1. asset \in [Names -> Asset \cup {Nothing}]  OBVIOUS
  <2>2. faults \in 0 .. MaxFaults /\ meddled \in 0 .. MaxMeddling  OBVIOUS
  <2> QED  BY OneIsName, <2>1, <2>2 DEF TypeOK, Labels, Stages
<1>2. OwnRecords /\ Placed /\ ReadBack /\ Verified  BY DEF OwnRecords, Placed, ReadBack, Verified, Filling
<1>3. Closed /\ Noticed  BY DEF Closed, Noticed
<1>4. PublishedIsWhole /\ InterferenceIsNoticed  BY DEF PublishedIsWhole, InterferenceIsNoticed
<1> QED  BY <1>1, <1>2, <1>3, <1>4 DEF IInv

(* A run that begins has touched nothing.                                   *)
LEMMA BeginPreserves ==
    ASSUME IInv, NEW b \in Builds, Begin(b)
    PROVE  IInv'
<1> USE NamesAssumption, BuildsAssumption, BoundsAssumption, NothingAssumption
        DEF IInv, TypeOK, Begin, Goto, End, Fail, Exists, remote, run, ghosts, bounds
<1>1. TypeOK'
  BY OneIsName DEF Labels, Stages, Asset, States
<1>2. OwnRecords'  BY DEF OwnRecords, Filling, Uploaded, Asset, Names
<1>3. Placed'  BY DEF Placed
<1>4. ReadBack'  BY DEF ReadBack, Placed
<1>5. Verified'  BY DEF Verified, Placed, Others, Whole, Matches, Uploaded, Names, Asset
<1>6. Closed'  BY DEF Closed, ReadBack, Placed, PublishedIsWhole
<1>7. Noticed'  BY DEF Noticed, ReadBack, Placed, Intervened
<1>8. PublishedIsWhole'  BY DEF PublishedIsWhole, Placed, Closed, ReadBack, Verified, Whole, Matches, Uploaded, Names, Asset
<1>9. InterferenceIsNoticed'  BY DEF InterferenceIsNoticed, Noticed, Intervened
<1> QED  BY <1>1, <1>2, <1>3, <1>4, <1>5, <1>6, <1>7, <1>8, <1>9

(* The tag was read; nothing moves.                                         *)
LEMMA CheckTagPreserves ==
    ASSUME IInv, CheckTag
    PROVE  IInv'
<1> USE NamesAssumption, BuildsAssumption, BoundsAssumption, NothingAssumption
        DEF IInv, TypeOK, CheckTag, Goto, End, Fail, Exists, remote, run, ghosts, bounds
<1>1. TypeOK'  BY DEF Labels, Stages, Names, Asset, States
<1>2. OwnRecords'  BY DEF OwnRecords, Filling, Uploaded, Asset, Names
<1>3. Placed'  BY DEF Placed
<1>4. ReadBack'  BY DEF ReadBack, Placed
<1>5. Verified'  BY DEF Verified, Placed, Others, Whole, Matches, Uploaded, Names, Asset
<1>6. Closed'  BY DEF Closed, ReadBack, Placed, PublishedIsWhole
<1>7. Noticed'  BY DEF Noticed, ReadBack, Placed, Intervened
<1>8. PublishedIsWhole'  BY DEF PublishedIsWhole, Placed, Closed, ReadBack, Verified, Whole, Matches, Uploaded, Names, Asset
<1>9. InterferenceIsNoticed'  BY DEF InterferenceIsNoticed, Noticed, Intervened
<1> QED  BY <1>1, <1>2, <1>3, <1>4, <1>5, <1>6, <1>7, <1>8, <1>9

(* A release is found; nothing moves.                                       *)
LEMMA FindReleasePreserves ==
    ASSUME IInv, FindRelease
    PROVE  IInv'
<1> USE NamesAssumption, BuildsAssumption, BoundsAssumption, NothingAssumption
        DEF IInv, TypeOK, FindRelease, Goto, End, Fail, Exists, remote, run, ghosts, bounds
<1>1. TypeOK'  BY DEF Labels, Stages, Names, Asset, States
<1>2. OwnRecords'  BY DEF OwnRecords, Filling, Uploaded, Asset, Names
<1>3. Placed'  BY DEF Placed
<1>4. ReadBack'  BY DEF ReadBack, Placed
<1>5. Verified'  BY DEF Verified, Placed, Others, Whole, Matches, Uploaded, Names, Asset
<1>6. Closed'  BY DEF Closed, ReadBack, Placed, PublishedIsWhole
<1>7. Noticed'  BY DEF Noticed, ReadBack, Placed, Intervened
<1>8. PublishedIsWhole'  BY DEF PublishedIsWhole, Placed, Closed, ReadBack, Verified, Whole, Matches, Uploaded, Names, Asset
<1>9. InterferenceIsNoticed'  BY DEF InterferenceIsNoticed, Noticed, Intervened
<1> QED  BY <1>1, <1>2, <1>3, <1>4, <1>5, <1>6, <1>7, <1>8, <1>9

(* A draft is created only where no release is.                             *)
LEMMA CreateDraftPreserves ==
    ASSUME IInv, CreateDraft
    PROVE  IInv'
<1> USE NamesAssumption, BuildsAssumption, BoundsAssumption, NothingAssumption
        DEF IInv, TypeOK, CreateDraft, Goto, End, Fail, Exists, remote, run, ghosts, bounds
<1>1. TypeOK'  BY DEF Labels, Stages, Names, Asset, States
<1>2. OwnRecords'  BY DEF OwnRecords, Filling, Uploaded, Asset, Names
<1>3. Placed'  BY DEF Placed
<1>4. ReadBack'  BY DEF ReadBack, Placed
<1>5. Verified'  BY DEF Verified, Placed, Others, Whole, Matches, Uploaded, Names, Asset
<1>6. Closed'  BY DEF Closed, ReadBack, Placed, PublishedIsWhole
<1>7. Noticed'  BY DEF Noticed, ReadBack, Placed, Intervened
<1>8. PublishedIsWhole'  BY DEF PublishedIsWhole, Placed, Closed, ReadBack, Verified, Whole, Matches, Uploaded, Names, Asset
<1>9. InterferenceIsNoticed'  BY DEF InterferenceIsNoticed, Noticed, Intervened
<1> QED  BY <1>1, <1>2, <1>3, <1>4, <1>5, <1>6, <1>7, <1>8, <1>9

(* What was read agrees with the release.                                   *)
LEMMA ReadReleasePreserves ==
    ASSUME IInv, ReadRelease
    PROVE  IInv'
<1> USE NamesAssumption, BuildsAssumption, BoundsAssumption, NothingAssumption
        DEF IInv, TypeOK, ReadRelease, Goto, End, Fail, Exists, remote, run, ghosts, bounds
<1>1. TypeOK'  BY DEF Labels, Stages, Names, Asset, States
<1>2. OwnRecords'  BY DEF OwnRecords, Filling, Uploaded, Asset, Names
<1>3. Placed'  BY DEF Placed
<1>4. ReadBack'  BY DEF ReadBack, Placed
<1>5. Verified'  BY DEF Verified, Placed, Others, Whole, Matches, Uploaded, Names, Asset
<1>6. Closed'  BY DEF Closed, ReadBack, Placed, PublishedIsWhole
<1>7. Noticed'  BY DEF Noticed, ReadBack, Placed, Intervened
<1>8. PublishedIsWhole'  BY DEF PublishedIsWhole, Placed, Closed, ReadBack, Verified, Whole, Matches, Uploaded, Names, Asset
<1>9. InterferenceIsNoticed'  BY DEF InterferenceIsNoticed, Noticed, Intervened
<1> QED  BY <1>1, <1>2, <1>3, <1>4, <1>5, <1>6, <1>7, <1>8, <1>9

(* A run goes on only if nobody has intervened before the two reads.        *)
LEMMA ReadTagPreserves ==
    ASSUME IInv, ReadTag
    PROVE  IInv'
<1> USE NamesAssumption, BuildsAssumption, BoundsAssumption, NothingAssumption
        DEF IInv, TypeOK, Exists, remote, run, ghosts, bounds
<1>0. /\ at = "tag" /\ UNCHANGED <<remote, build, next, draft, seen, ghosts, bounds>>
      /\ \/ at' = "idle" /\ outcome' = "failed" /\ stage' = stage
         \/ /\ tag = CommitOf[build] /\ outcome' = outcome /\ stage' = stage
            /\ \/ stage = "first" /\ draft /\ at' = "conflicts"
               \/ stage = "first" /\ ~draft /\ at' = "compare"
               \/ stage = "each" /\ draft /\ at' = "list"
               \/ stage = "final" /\ at' = "verify"
               \/ stage = "publish" /\ draft /\ at' = "publish"
         \/ /\ tag = CommitOf[build] /\ outcome' = outcome /\ stage' = "confirm"
            /\ stage = "publish" /\ ~draft /\ at' = "release"
         \/ /\ tag = CommitOf[build] /\ outcome' = "succeeded" /\ stage' = stage
            /\ stage = "confirm" /\ ~draft /\ at' = "idle"
  BY DEF ReadTag, TagMoved, Unexpected, Proceed, Goto, End, Fail, Validate, Stages
<1>1. TypeOK'  BY <1>0 DEF Labels, Stages, Names, Asset, States
<1>2. OwnRecords'  BY <1>0 DEF OwnRecords, Filling, Uploaded, Asset, Names
<1>3. Placed'  BY <1>0 DEF Placed
<1>4. ReadBack'  BY <1>0 DEF ReadBack, Placed
<1>5. Verified'  BY <1>0 DEF Verified, Placed, Others, Whole, Matches, Uploaded, Names, Asset
<1>6. Closed'  BY <1>0 DEF Closed, ReadBack, Placed, PublishedIsWhole
<1>7. Noticed'  BY <1>0 DEF Noticed, ReadBack, Placed, Intervened
<1>8. PublishedIsWhole'  BY <1>0 DEF PublishedIsWhole, Placed, Closed, ReadBack, Verified, Whole, Matches, Uploaded, Names, Asset
<1>9. InterferenceIsNoticed'  BY <1>0 DEF InterferenceIsNoticed, Noticed, Intervened
<1> QED  BY <1>1, <1>2, <1>3, <1>4, <1>5, <1>6, <1>7, <1>8, <1>9

(* A published release is compared with the build.                          *)
LEMMA ComparePreserves ==
    ASSUME IInv, Compare
    PROVE  IInv'
<1> USE NamesAssumption, BuildsAssumption, BoundsAssumption, NothingAssumption
        DEF IInv, TypeOK, Compare, End, Fail, Exists, remote, run, ghosts, bounds
<1>1. TypeOK'  BY DEF Labels, Stages, Names, Asset, States
<1>2. OwnRecords'  BY DEF OwnRecords, Filling, Uploaded, Asset, Names
<1>3. Placed'  BY DEF Placed
<1>4. ReadBack'  BY DEF ReadBack, Placed
<1>5. Verified'  BY DEF Verified, Placed, Others, Whole, Matches, Uploaded, Names, Asset
<1>6. Closed'  BY DEF Closed, ReadBack, Placed, PublishedIsWhole
<1>7. Noticed'  BY DEF Noticed, ReadBack, Placed, Intervened
<1>8. PublishedIsWhole'  BY DEF PublishedIsWhole, Placed, Closed, ReadBack, Verified, Whole, Matches, Uploaded, Names, Asset
<1>9. InterferenceIsNoticed'  BY DEF InterferenceIsNoticed, Noticed, Intervened
<1> QED  BY <1>1, <1>2, <1>3, <1>4, <1>5, <1>6, <1>7, <1>8, <1>9

(* The conflicts are found before any mutation.                             *)
LEMMA ConflictsPreserves ==
    ASSUME IInv, Conflicts
    PROVE  IInv'
<1> USE NamesAssumption, BuildsAssumption, BoundsAssumption, NothingAssumption
        DEF IInv, TypeOK, Conflicts, Goto, End, Fail, Validate, Exists, remote, run, ghosts, bounds
<1>1. TypeOK'  BY DEF Labels, Stages, Names, Asset, States
<1>2. OwnRecords'  BY DEF OwnRecords, Filling, Uploaded, Asset, Names
<1>3. Placed'  BY DEF Placed
<1>4. ReadBack'  BY DEF ReadBack, Placed
<1>5. Verified'  BY DEF Verified, Placed, Others, Whole, Matches, Uploaded, Names, Asset
<1>6. Closed'  BY DEF Closed, ReadBack, Placed, PublishedIsWhole
<1>7. Noticed'  BY DEF Noticed, ReadBack, Placed, Intervened
<1>8. PublishedIsWhole'  BY DEF PublishedIsWhole, Placed, Closed, ReadBack, Verified, Whole, Matches, Uploaded, Names, Asset
<1>9. InterferenceIsNoticed'  BY DEF InterferenceIsNoticed, Noticed, Intervened
<1> QED  BY <1>1, <1>2, <1>3, <1>4, <1>5, <1>6, <1>7, <1>8, <1>9

(* An asset that matches needs nothing.                                     *)
LEMMA ListMatchesPreserves ==
    ASSUME IInv, ListMatches
    PROVE  IInv'
<1> USE NamesAssumption, BuildsAssumption, BoundsAssumption, NothingAssumption
        DEF IInv, TypeOK, ListMatches, Goto, End, Fail, Validate, Advance, Exists, remote, run, ghosts, bounds
<1>1. TypeOK'  BY DEF Labels, Stages, Names, Asset, States
<1>2. OwnRecords'  BY DEF OwnRecords, Filling, Uploaded, Asset, Names
<1>3. Placed'  BY DEF Placed
<1>4. ReadBack'  BY DEF ReadBack, Placed
<1>5. Verified'  BY DEF Verified, Placed, Others, Whole, Matches, Uploaded, Names, Asset
<1>6. Closed'  BY DEF Closed, ReadBack, Placed, PublishedIsWhole
<1>7. Noticed'  BY DEF Noticed, ReadBack, Placed, Intervened
<1>8. PublishedIsWhole'  BY DEF PublishedIsWhole, Placed, Closed, ReadBack, Verified, Whole, Matches, Uploaded, Names, Asset
<1>9. InterferenceIsNoticed'  BY DEF InterferenceIsNoticed, Noticed, Intervened
<1> QED  BY <1>1, <1>2, <1>3, <1>4, <1>5, <1>6, <1>7, <1>8, <1>9

(* A missing asset is to be uploaded.                                       *)
LEMMA ListMissingPreserves ==
    ASSUME IInv, ListMissing
    PROVE  IInv'
<1> USE NamesAssumption, BuildsAssumption, BoundsAssumption, NothingAssumption
        DEF IInv, TypeOK, ListMissing, Goto, End, Fail, ToUpload, Exists, remote, run, ghosts, bounds
<1>1. TypeOK'  BY DEF Labels, Stages, Names, Asset, States
<1>2. OwnRecords'  BY DEF OwnRecords, Filling, Uploaded, Asset, Names
<1>3. Placed'  BY DEF Placed
<1>4. ReadBack'  BY DEF ReadBack, Placed
<1>5. Verified'  BY DEF Verified, Placed, Others, Whole, Matches, Uploaded, Names, Asset
<1>6. Closed'  BY DEF Closed, ReadBack, Placed, PublishedIsWhole
<1>7. Noticed'  BY DEF Noticed, ReadBack, Placed, Intervened
<1>8. PublishedIsWhole'  BY DEF PublishedIsWhole, Placed, Closed, ReadBack, Verified, Whole, Matches, Uploaded, Names, Asset
<1>9. InterferenceIsNoticed'  BY DEF InterferenceIsNoticed, Noticed, Intervened
<1> QED  BY <1>1, <1>2, <1>3, <1>4, <1>5, <1>6, <1>7, <1>8, <1>9

(* What is to be deleted was not finished when listed.                      *)
LEMMA ListStarterPreserves ==
    ASSUME IInv, ListStarter
    PROVE  IInv'
<1> USE NamesAssumption, BuildsAssumption, BoundsAssumption, NothingAssumption
        DEF IInv, TypeOK, ListStarter, Goto, End, Fail, Exists, remote, run, ghosts, bounds
<1>1. TypeOK'  BY DEF Labels, Stages, Names, Asset, States
<1>2. OwnRecords'  BY DEF OwnRecords, Filling, Uploaded, Asset, Names
<1>3. Placed'  BY DEF Placed
<1>4. ReadBack'  BY DEF ReadBack, Placed
<1>5. Verified'  BY DEF Verified, Placed, Others, Whole, Matches, Uploaded, Names, Asset
<1>6. Closed'  BY DEF Closed, ReadBack, Placed, PublishedIsWhole
<1>7. Noticed'  BY DEF Noticed, ReadBack, Placed, Intervened
<1>8. PublishedIsWhole'  BY DEF PublishedIsWhole, Placed, Closed, ReadBack, Verified, Whole, Matches, Uploaded, Names, Asset
<1>9. InterferenceIsNoticed'  BY DEF InterferenceIsNoticed, Noticed, Intervened
<1> QED  BY <1>1, <1>2, <1>3, <1>4, <1>5, <1>6, <1>7, <1>8, <1>9

(* An asset that differs ends the run.                                      *)
LEMMA ListConflictPreserves ==
    ASSUME IInv, ListConflict
    PROVE  IInv'
<1> USE NamesAssumption, BuildsAssumption, BoundsAssumption, NothingAssumption
        DEF IInv, TypeOK, ListConflict, End, Fail, Exists, remote, run, ghosts, bounds
<1>1. TypeOK'  BY DEF Labels, Stages, Names, Asset, States
<1>2. OwnRecords'  BY DEF OwnRecords, Filling, Uploaded, Asset, Names
<1>3. Placed'  BY DEF Placed
<1>4. ReadBack'  BY DEF ReadBack, Placed
<1>5. Verified'  BY DEF Verified, Placed, Others, Whole, Matches, Uploaded, Names, Asset
<1>6. Closed'  BY DEF Closed, ReadBack, Placed, PublishedIsWhole
<1>7. Noticed'  BY DEF Noticed, ReadBack, Placed, Intervened
<1>8. PublishedIsWhole'  BY DEF PublishedIsWhole, Placed, Closed, ReadBack, Verified, Whole, Matches, Uploaded, Names, Asset
<1>9. InterferenceIsNoticed'  BY DEF InterferenceIsNoticed, Noticed, Intervened
<1> QED  BY <1>1, <1>2, <1>3, <1>4, <1>5, <1>6, <1>7, <1>8, <1>9

(* The record deleted is the leftover.                                      *)
LEMMA DeletePreserves ==
    ASSUME IInv, Delete
    PROVE  IInv'
<1> USE NamesAssumption, BuildsAssumption, BoundsAssumption, NothingAssumption
        DEF IInv, TypeOK, Delete, Goto, End, Fail, ToUpload, Touch, Exists, remote, run, ghosts, bounds
<1>1. TypeOK'  BY DEF Labels, Stages, Names, Asset, States
<1>2. OwnRecords'  BY DEF OwnRecords, Filling, Uploaded, Asset, Names
<1>3. Placed'  BY DEF Placed
<1>4. ReadBack'  BY DEF ReadBack, Placed
<1>5. Verified'  BY DEF Verified, Placed, Others, Whole, Matches, Uploaded, Names, Asset
<1>6. Closed'  BY DEF Closed, ReadBack, Placed, PublishedIsWhole
<1>7. Noticed'  BY DEF Noticed, ReadBack, Placed, Intervened
<1>8. PublishedIsWhole'  BY DEF PublishedIsWhole, Placed, Closed, ReadBack, Verified, Whole, Matches, Uploaded, Names, Asset
<1>9. InterferenceIsNoticed'  BY DEF InterferenceIsNoticed, Noticed, Intervened
<1> QED  BY <1>1, <1>2, <1>3, <1>4, <1>5, <1>6, <1>7, <1>8, <1>9

(* All assets but the manifest are looked at.                               *)
LEMMA RecheckPreserves ==
    ASSUME IInv, Recheck
    PROVE  IInv'
<1> USE NamesAssumption, BuildsAssumption, BoundsAssumption, NothingAssumption
        DEF IInv, TypeOK, Recheck, Goto, End, Fail, Exists, remote, run, ghosts, bounds
<1>1. TypeOK'  BY DEF Labels, Stages, Names, Asset, States
<1>2. OwnRecords'  BY DEF OwnRecords, Filling, Uploaded, Asset, Names
<1>3. Placed'  BY DEF Placed
<1>4. ReadBack'  BY DEF ReadBack, Placed
<1>5. Verified'  BY DEF Verified, Placed, Others, Whole, Matches, Uploaded, Names, Asset
<1>6. Closed'  BY DEF Closed, ReadBack, Placed, PublishedIsWhole
<1>7. Noticed'  BY DEF Noticed, ReadBack, Placed, Intervened
<1>8. PublishedIsWhole'  BY DEF PublishedIsWhole, Placed, Closed, ReadBack, Verified, Whole, Matches, Uploaded, Names, Asset
<1>9. InterferenceIsNoticed'  BY DEF InterferenceIsNoticed, Noticed, Intervened
<1> QED  BY <1>1, <1>2, <1>3, <1>4, <1>5, <1>6, <1>7, <1>8, <1>9

(* A record is opened under a free name.                                    *)
LEMMA UploadPreserves ==
    ASSUME IInv, Upload
    PROVE  IInv'
<1> USE NamesAssumption, BuildsAssumption, BoundsAssumption, NothingAssumption
        DEF IInv, TypeOK, Upload, Goto, End, Fail, Touch, Exists, remote, run, ghosts, bounds
<1>1. TypeOK'
  <2>1. ASSUME NEW i \in Ids
        PROVE  [id |-> i, by |-> build, state |-> "open"] \in Asset
    BY DEF Asset, States
  <2>2. asset' \in [Names -> Asset \cup {Nothing}]  BY <2>1
  <2>3. seen' \in Ids \cup {Nothing} /\ late' \subseteq Names  OBVIOUS
  <2> QED  BY <2>2, <2>3 DEF Labels, Stages
<1>2. OwnRecords'  BY DEF OwnRecords, Filling, Uploaded, Asset, Names
<1>3. Placed'  BY DEF Placed
<1>4. ReadBack'  BY DEF ReadBack, Placed
<1>5. Verified'  BY DEF Verified, Placed, Others, Whole, Matches, Uploaded, Names, Asset
<1>6. Closed'  BY DEF Closed, ReadBack, Placed, PublishedIsWhole
<1>7. Noticed'  BY DEF Noticed, ReadBack, Placed, Intervened
<1>8. PublishedIsWhole'  BY DEF PublishedIsWhole, Placed, Closed, ReadBack, Verified, Whole, Matches, Uploaded, Names, Asset
<1>9. InterferenceIsNoticed'  BY DEF InterferenceIsNoticed, Noticed, Intervened
<1> QED  BY <1>1, <1>2, <1>3, <1>4, <1>5, <1>6, <1>7, <1>8, <1>9

(* The record holds the build's bytes.                                      *)
LEMMA UploadEndsPreserves ==
    ASSUME IInv, UploadEnds
    PROVE  IInv'
<1> USE NamesAssumption, BuildsAssumption, BoundsAssumption, NothingAssumption
        DEF IInv, TypeOK, UploadEnds, Goto, End, Fail, Validate, Advance, Exists, Filling, remote, run, ghosts, bounds
<1>0. at' = "release"  OBVIOUS
<1>1. TypeOK'
  <2>1. asset[next] \in Asset  OBVIOUS
  <2>2. [asset[next] EXCEPT !.state = "uploaded"] \in Asset  BY <2>1 DEF Asset, States
  <2>3. asset' \in [Names -> Asset \cup {Nothing}]  BY <2>2
  <2>4. next' \in Names /\ stage' \in Stages  BY DEF Names, Stages
  <2> QED  BY <1>0, <2>3, <2>4 DEF Labels
<1>2. OwnRecords'  BY <1>0 DEF OwnRecords
<1>3. Placed'  BY DEF Placed
<1>4. ReadBack'  BY DEF ReadBack, Placed
<1>5. Verified'  BY DEF Verified, Placed, Others, Whole, Matches, Uploaded, Names, Asset
<1>6. Closed'  BY DEF Closed, ReadBack, Placed, PublishedIsWhole
<1>7. Noticed'  BY DEF Noticed, ReadBack, Placed, Intervened
<1>8. PublishedIsWhole'  BY DEF PublishedIsWhole, Placed, Closed, ReadBack, Verified, Whole, Matches, Uploaded, Names, Asset
<1>9. InterferenceIsNoticed'  BY DEF InterferenceIsNoticed, Noticed, Intervened
<1> QED  BY <1>1, <1>2, <1>3, <1>4, <1>5, <1>6, <1>7, <1>8, <1>9

(* The record is gone, and with it the run.                                 *)
LEMMA UploadLostPreserves ==
    ASSUME IInv, UploadLost
    PROVE  IInv'
<1> USE NamesAssumption, BuildsAssumption, BoundsAssumption, NothingAssumption
        DEF IInv, TypeOK, UploadLost, End, Fail, Exists, Filling, remote, run, ghosts, bounds
<1>1. TypeOK'  BY DEF Labels, Stages, Names, Asset, States
<1>2. OwnRecords'  BY DEF OwnRecords, Uploaded, Asset, Names
<1>3. Placed'  BY DEF Placed
<1>4. ReadBack'  BY DEF ReadBack, Placed
<1>5. Verified'  BY DEF Verified, Placed, Others, Whole, Matches, Uploaded, Names, Asset
<1>6. Closed'  BY DEF Closed, ReadBack, Placed, PublishedIsWhole
<1>7. Noticed'  BY DEF Noticed, ReadBack, Placed, Intervened
<1>8. PublishedIsWhole'  BY DEF PublishedIsWhole, Placed, Closed, ReadBack, Verified, Whole, Matches, Uploaded, Names, Asset
<1>9. InterferenceIsNoticed'  BY DEF InterferenceIsNoticed, Noticed, Intervened
<1> QED  BY <1>1, <1>2, <1>3, <1>4, <1>5, <1>6, <1>7, <1>8, <1>9

(* All assets are looked at.                                                *)
LEMMA VerifyPreserves ==
    ASSUME IInv, Verify
    PROVE  IInv'
<1> USE NamesAssumption, BuildsAssumption, BoundsAssumption, NothingAssumption
        DEF IInv, TypeOK, Verify, Goto, End, Fail, Validate, Exists, remote, run, ghosts, bounds
<1>1. TypeOK'  BY DEF Labels, Stages, Names, Asset, States
<1>2. OwnRecords'  BY DEF OwnRecords, Filling, Uploaded, Asset, Names
<1>3. Placed'  BY DEF Placed
<1>4. ReadBack'  BY DEF ReadBack, Placed
<1>5. Verified'  BY DEF Verified, Placed, Others, Whole, Matches, Uploaded, Names, Asset
<1>6. Closed'  BY DEF Closed, ReadBack, Placed, PublishedIsWhole
<1>7. Noticed'  BY DEF Noticed, ReadBack, Placed, Intervened
<1>8. PublishedIsWhole'  BY DEF PublishedIsWhole, Placed, Closed, ReadBack, Verified, Whole, Matches, Uploaded, Names, Asset
<1>9. InterferenceIsNoticed'  BY DEF InterferenceIsNoticed, Noticed, Intervened
<1> QED  BY <1>1, <1>2, <1>3, <1>4, <1>5, <1>6, <1>7, <1>8, <1>9

(* What is published was verified.                                          *)
LEMMA PublishPreserves ==
    ASSUME IInv, Publish
    PROVE  IInv'
<1> USE NamesAssumption, BuildsAssumption, BoundsAssumption, NothingAssumption
        DEF IInv, TypeOK, Publish, Goto, End, Fail, Validate, Exists, remote, run, ghosts, bounds
<1>1. TypeOK'  BY DEF Labels, Stages, Names, Asset, States
<1>2. OwnRecords'  BY DEF OwnRecords, Filling, Uploaded, Asset, Names
<1>3. Placed'  BY DEF Placed
<1>4. ReadBack'  BY DEF ReadBack, Placed
<1>5. Verified'  BY DEF Verified, Placed, Others, Whole, Matches, Uploaded, Names, Asset
<1>6. Closed'  BY DEF Closed, ReadBack, Placed, PublishedIsWhole
<1>7. Noticed'  BY DEF Noticed, ReadBack, Placed, Intervened
<1>8. PublishedIsWhole'  BY DEF PublishedIsWhole, Placed, Closed, ReadBack, Verified, Whole, Matches, Uploaded, Names, Asset
<1>9. InterferenceIsNoticed'  BY DEF InterferenceIsNoticed, Noticed, Intervened
<1> QED  BY <1>1, <1>2, <1>3, <1>4, <1>5, <1>6, <1>7, <1>8, <1>9

(* The wrong bytes are stored.                                              *)
LEMMA UploadCorruptedPreserves ==
    ASSUME IInv, UploadCorrupted
    PROVE  IInv'
<1> USE NamesAssumption, BuildsAssumption, BoundsAssumption, NothingAssumption
        DEF IInv, TypeOK, UploadCorrupted, End, Fail, Exists, Filling, remote, run, ghosts, bounds
<1>1. TypeOK'
  <2>1. asset[next] \in Asset  OBVIOUS
  <2>2. asset' \in [Names -> Asset \cup {Nothing}]  BY <2>1 DEF Asset, States
  <2>3. faults' \in 0 .. MaxFaults  OBVIOUS
  <2> QED  BY <2>2, <2>3 DEF Labels, Stages
<1>2. OwnRecords'  BY DEF OwnRecords, Uploaded, Asset, Names
<1>3. Placed'  BY DEF Placed
<1>4. ReadBack'  BY DEF ReadBack, Placed
<1>5. Verified'  BY DEF Verified, Placed, Others, Whole, Matches, Uploaded, Names, Asset
<1>6. Closed'  BY DEF Closed, ReadBack, Placed, PublishedIsWhole
<1>7. Noticed'  BY DEF Noticed, ReadBack, Placed, Intervened
<1>8. PublishedIsWhole'  BY DEF PublishedIsWhole, Placed, Closed, ReadBack, Verified, Whole, Matches, Uploaded, Names, Asset
<1>9. InterferenceIsNoticed'  BY DEF InterferenceIsNoticed, Noticed, Intervened
<1> QED  BY <1>1, <1>2, <1>3, <1>4, <1>5, <1>6, <1>7, <1>8, <1>9

(* A leftover stays.                                                        *)
LEMMA UploadFailsPreserves ==
    ASSUME IInv, UploadFails
    PROVE  IInv'
<1> USE NamesAssumption, BuildsAssumption, BoundsAssumption, NothingAssumption
        DEF IInv, TypeOK, UploadFails, End, Fail, Exists, Filling, remote, run, ghosts, bounds
<1>1. TypeOK'
  <2>1. asset[next] \in Asset  OBVIOUS
  <2>2. asset' \in [Names -> Asset \cup {Nothing}]  BY <2>1 DEF Asset, States
  <2>3. faults' \in 0 .. MaxFaults  OBVIOUS
  <2> QED  BY <2>2, <2>3 DEF Labels, Stages
<1>2. OwnRecords'  BY DEF OwnRecords, Uploaded, Asset, Names
<1>3. Placed'  BY DEF Placed
<1>4. ReadBack'  BY DEF ReadBack, Placed
<1>5. Verified'  BY DEF Verified, Placed, Others, Whole, Matches, Uploaded, Names, Asset
<1>6. Closed'  BY DEF Closed, ReadBack, Placed, PublishedIsWhole
<1>7. Noticed'  BY DEF Noticed, ReadBack, Placed, Intervened
<1>8. PublishedIsWhole'  BY DEF PublishedIsWhole, Placed, Closed, ReadBack, Verified, Whole, Matches, Uploaded, Names, Asset
<1>9. InterferenceIsNoticed'  BY DEF InterferenceIsNoticed, Noticed, Intervened
<1> QED  BY <1>1, <1>2, <1>3, <1>4, <1>5, <1>6, <1>7, <1>8, <1>9

(* A run that dies leaves everything as it is.                              *)
LEMMA DiePreserves ==
    ASSUME IInv, Die
    PROVE  IInv'
<1> USE NamesAssumption, BuildsAssumption, BoundsAssumption, NothingAssumption
        DEF IInv, TypeOK, Die, End, Fail, Exists, remote, run, ghosts, bounds
<1>1. TypeOK'  BY DEF Labels, Stages, Names, Asset, States
<1>2. OwnRecords'  BY DEF OwnRecords, Filling, Uploaded, Asset, Names
<1>3. Placed'  BY DEF Placed
<1>4. ReadBack'  BY DEF ReadBack, Placed
<1>5. Verified'  BY DEF Verified, Placed, Others, Whole, Matches, Uploaded, Names, Asset
<1>6. Closed'  BY DEF Closed, ReadBack, Placed, PublishedIsWhole
<1>7. Noticed'  BY DEF Noticed, ReadBack, Placed, Intervened
<1>8. PublishedIsWhole'  BY DEF PublishedIsWhole, Placed, Closed, ReadBack, Verified, Whole, Matches, Uploaded, Names, Asset
<1>9. InterferenceIsNoticed'  BY DEF InterferenceIsNoticed, Noticed, Intervened
<1> QED  BY <1>1, <1>2, <1>3, <1>4, <1>5, <1>6, <1>7, <1>8, <1>9

(* Only an asset on its way ends.                                           *)
LEMMA OrphanEndsPreserves ==
    ASSUME IInv, NEW n \in Names, OrphanEnds(n)
    PROVE  IInv'
<1> USE NamesAssumption, BuildsAssumption, BoundsAssumption, NothingAssumption
        DEF IInv, TypeOK, Exists, remote, run, bounds
<1>0. PICK r \in Asset : /\ asset' = [asset EXCEPT ![n] = r]
                         /\ r.id = asset[n].id
                         /\ r.state = "uploaded" =>
                               (overtaken' <=> overtaken \/ (at = "delete" /\ n = next /\ r.id = seen))
                         /\ r.state # "uploaded" => overtaken' = overtaken
  <2>1. asset[n] \in Asset /\ asset[n].by \in Builds \cup {Foreign}
    BY DEF OrphanEnds, Orphan, Asset
  <2>2. CASE asset' = [asset EXCEPT ![n].state = "starter"] /\ UNCHANGED overtaken
    BY <2>1, <2>2 DEF Asset, States
  <2>3. CASE /\ \E bytes \in {asset[n].by, Foreign} :
                   asset' = [asset EXCEPT ![n] = [id |-> @.id, by |-> bytes, state |-> "uploaded"]]
             /\ overtaken' = (overtaken \/ (at = "delete" /\ n = next /\ asset[n].id = seen))
    <3>1. PICK bytes \in {asset[n].by, Foreign} :
              asset' = [asset EXCEPT ![n] = [id |-> @.id, by |-> bytes, state |-> "uploaded"]]
      BY <2>3
    <3>2. bytes \in Builds \cup {Foreign}  BY <2>1
    <3> DEFINE r == [id |-> asset[n].id, by |-> bytes, state |-> "uploaded"]
    <3>3. r \in Asset  BY <2>1, <3>2 DEF Asset, States
    <3>4. asset' = [asset EXCEPT ![n] = r]  BY <3>1
    <3> QED  BY <2>3, <3>3, <3>4
  <2> QED  BY <2>2, <2>3 DEF OrphanEnds
<1>10. /\ asset[n] # Nothing /\ asset[n].state = "open" /\ ~(Filling /\ n = next)
       /\ UNCHANGED <<release, tag, run, publisher, torn, late, bounds>>
  BY DEF OrphanEnds, Orphan
<1>11. overtaken' \in BOOLEAN
  BY DEF OrphanEnds
<1>1. TypeOK'  BY <1>0, <1>10, <1>11 DEF Labels, Stages, Names, Asset, States
<1>2. OwnRecords'
  <2>1. at = "delete" /\ Uploaded(next)' /\ asset'[next].id = seen => overtaken'
    BY <1>0, <1>10 DEF OwnRecords, Uploaded
  <2>2. Filling' => asset'[next].by = build /\ asset'[next].state = "open"
    BY <1>0, <1>10 DEF OwnRecords, Filling
  <2> QED  BY <1>10, <2>1, <2>2 DEF OwnRecords
<1>3. Placed'  BY <1>0, <1>10 DEF Placed
<1>4. ReadBack'  BY <1>0, <1>10 DEF ReadBack, Placed
<1>5. Verified'  BY <1>0, <1>10 DEF Verified, Placed, Others, Whole, Matches, Uploaded, Names, Asset
<1>6. Closed'  BY <1>0, <1>10 DEF Closed, ReadBack, Placed, PublishedIsWhole
<1>7. Noticed'  BY <1>0, <1>10 DEF Noticed, ReadBack, Placed, Intervened
<1>8. PublishedIsWhole'  BY <1>0, <1>10 DEF PublishedIsWhole, Placed, Closed, ReadBack, Verified, Whole, Matches, Uploaded, Names, Asset
<1>9. InterferenceIsNoticed'  BY <1>0, <1>10 DEF InterferenceIsNoticed, Noticed, Intervened
<1> QED  BY <1>1, <1>2, <1>3, <1>4, <1>5, <1>6, <1>7, <1>8, <1>9

(* An asset is attached under a free name, with an id of its own.           *)
LEMMA AttachPreserves ==
    ASSUME IInv, NEW n \in Names, Attach(n)
    PROVE  IInv'
<1> USE NamesAssumption, BuildsAssumption, BoundsAssumption, NothingAssumption
        DEF IInv, TypeOK, Attach, Meddle, Exists, remote, run, ghosts, bounds
<1>1. TypeOK'  BY DEF Labels, Stages, Names, Asset, States
<1>2. OwnRecords'  BY DEF OwnRecords, Filling, Uploaded, Asset, Names
<1>3. Placed'  BY DEF Placed
<1>4. ReadBack'  BY DEF ReadBack, Placed
<1>5. Verified'  BY DEF Verified, Placed, Others, Whole, Matches, Uploaded, Names, Asset
<1>6. Closed'  BY DEF Closed, ReadBack, Placed, PublishedIsWhole
<1>7. Noticed'  BY DEF Noticed, ReadBack, Placed, Intervened
<1>8. PublishedIsWhole'  BY DEF PublishedIsWhole, Placed, Closed, ReadBack, Verified, Whole, Matches, Uploaded, Names, Asset
<1>9. InterferenceIsNoticed'  BY DEF InterferenceIsNoticed, Noticed, Intervened
<1> QED  BY <1>1, <1>2, <1>3, <1>4, <1>5, <1>6, <1>7, <1>8, <1>9

(* A removal is remembered.                                                 *)
LEMMA RemovePreserves ==
    ASSUME IInv, NEW n \in Names, Remove(n)
    PROVE  IInv'
<1> USE NamesAssumption, BuildsAssumption, BoundsAssumption, NothingAssumption
        DEF IInv, TypeOK, Remove, Meddle, Exists, remote, run, ghosts, bounds
<1>1. TypeOK'  BY DEF Labels, Stages, Names, Asset, States
<1>2. OwnRecords'  BY DEF OwnRecords, Filling, Uploaded, Asset, Names
<1>3. Placed'  BY DEF Placed
<1>4. ReadBack'  BY DEF ReadBack, Placed
<1>5. Verified'  BY DEF Verified, Placed, Others, Whole, Matches, Uploaded, Names, Asset
<1>6. Closed'  BY DEF Closed, ReadBack, Placed, PublishedIsWhole
<1>7. Noticed'  BY DEF Noticed, ReadBack, Placed, Intervened
<1>8. PublishedIsWhole'  BY DEF PublishedIsWhole, Placed, Closed, ReadBack, Verified, Whole, Matches, Uploaded, Names, Asset
<1>9. InterferenceIsNoticed'  BY DEF InterferenceIsNoticed, Noticed, Intervened
<1> QED  BY <1>1, <1>2, <1>3, <1>4, <1>5, <1>6, <1>7, <1>8, <1>9

(* A publication by hand is an intervention.                                *)
LEMMA PublishByHandPreserves ==
    ASSUME IInv, PublishByHand
    PROVE  IInv'
<1> USE NamesAssumption, BuildsAssumption, BoundsAssumption, NothingAssumption
        DEF IInv, TypeOK, PublishByHand, Meddle, Exists, remote, run, ghosts, bounds
<1>1. TypeOK'  BY DEF Labels, Stages, Names, Asset, States
<1>2. OwnRecords'  BY DEF OwnRecords, Filling, Uploaded, Asset, Names
<1>3. Placed'  BY DEF Placed
<1>4. ReadBack'  BY DEF ReadBack, Placed
<1>5. Verified'  BY DEF Verified, Placed, Others, Whole, Matches, Uploaded, Names, Asset
<1>6. Closed'  BY DEF Closed, ReadBack, Placed, PublishedIsWhole
<1>7. Noticed'  BY DEF Noticed, ReadBack, Placed, Intervened
<1>8. PublishedIsWhole'  BY DEF PublishedIsWhole, Placed, Closed, ReadBack, Verified, Whole, Matches, Uploaded, Names, Asset
<1>9. InterferenceIsNoticed'  BY DEF InterferenceIsNoticed, Noticed, Intervened
<1> QED  BY <1>1, <1>2, <1>3, <1>4, <1>5, <1>6, <1>7, <1>8, <1>9

(* So is a move of the tag.                                                 *)
LEMMA MoveTagPreserves ==
    ASSUME IInv, MoveTag
    PROVE  IInv'
<1> USE NamesAssumption, BuildsAssumption, BoundsAssumption, NothingAssumption
        DEF IInv, TypeOK, MoveTag, Meddle, Exists, remote, run, ghosts, bounds
<1>1. TypeOK'  BY DEF Labels, Stages, Names, Asset, States
<1>2. OwnRecords'  BY DEF OwnRecords, Filling, Uploaded, Asset, Names
<1>3. Placed'  BY DEF Placed
<1>4. ReadBack'  BY DEF ReadBack, Placed
<1>5. Verified'  BY DEF Verified, Placed, Others, Whole, Matches, Uploaded, Names, Asset
<1>6. Closed'  BY DEF Closed, ReadBack, Placed, PublishedIsWhole
<1>7. Noticed'  BY DEF Noticed, ReadBack, Placed, Intervened
<1>8. PublishedIsWhole'  BY DEF PublishedIsWhole, Placed, Closed, ReadBack, Verified, Whole, Matches, Uploaded, Names, Asset
<1>9. InterferenceIsNoticed'  BY DEF InterferenceIsNoticed, Noticed, Intervened
<1> QED  BY <1>1, <1>2, <1>3, <1>4, <1>5, <1>6, <1>7, <1>8, <1>9

(* The removal of everything is remembered.                                 *)
LEMMA CleanUpPreserves ==
    ASSUME IInv, CleanUp
    PROVE  IInv'
<1> USE NamesAssumption, BuildsAssumption, BoundsAssumption, NothingAssumption
        DEF IInv, TypeOK, CleanUp, Meddle, Exists, remote, run, ghosts, bounds
<1>1. TypeOK'  BY DEF Labels, Stages, Names, Asset, States
<1>2. OwnRecords'  BY DEF OwnRecords, Filling, Uploaded, Asset, Names
<1>3. Placed'  BY DEF Placed
<1>4. ReadBack'  BY DEF ReadBack, Placed
<1>5. Verified'  BY DEF Verified, Placed, Others, Whole, Matches, Uploaded, Names, Asset
<1>6. Closed'  BY DEF Closed, ReadBack, Placed, PublishedIsWhole
<1>7. Noticed'  BY DEF Noticed, ReadBack, Placed, Intervened
<1>8. PublishedIsWhole'  BY DEF PublishedIsWhole, Placed, Closed, ReadBack, Verified, Whole, Matches, Uploaded, Names, Asset
<1>9. InterferenceIsNoticed'  BY DEF InterferenceIsNoticed, Noticed, Intervened
<1> QED  BY <1>1, <1>2, <1>3, <1>4, <1>5, <1>6, <1>7, <1>8, <1>9

(* Nothing that changes no variable disturbs the invariant.                 *)
LEMMA StutterPreserves == IInv /\ UNCHANGED vars => IInv'
<1> SUFFICES ASSUME IInv, UNCHANGED vars PROVE IInv'
  OBVIOUS
<1> USE DEF vars, remote, run, ghosts, bounds
<1>1. TypeOK'  BY DEF IInv, TypeOK
<1>2. OwnRecords'  BY DEF IInv, OwnRecords, Exists, Uploaded, Filling
<1>3. Placed' /\ ReadBack' /\ Closed'  BY DEF IInv, Placed, ReadBack, Closed
<1>4. Verified'  BY DEF IInv, Verified, Others, Whole, Matches, Uploaded, Exists
<1>5. Noticed' /\ InterferenceIsNoticed'  BY DEF IInv, Noticed, InterferenceIsNoticed, Intervened
<1>6. PublishedIsWhole'  BY DEF IInv, PublishedIsWhole, Whole, Matches, Uploaded, Exists
<1> QED  BY <1>1, <1>2, <1>3, <1>4, <1>5, <1>6 DEF IInv

(* Every step preserves the invariant.                                      *)
LEMMA NextIInv == IInv /\ [Next]_vars => IInv'
<1> SUFFICES ASSUME IInv, [Next]_vars PROVE IInv'
  OBVIOUS
<1>1. CASE \E b \in Builds : Begin(b)  BY <1>1, BeginPreserves
<1>2. CASE Run
  <2>1. CASE CheckTag  BY <2>1, CheckTagPreserves
  <2>2. CASE FindRelease  BY <2>2, FindReleasePreserves
  <2>3. CASE CreateDraft  BY <2>3, CreateDraftPreserves
  <2>4. CASE ReadRelease  BY <2>4, ReadReleasePreserves
  <2>5. CASE ReadTag  BY <2>5, ReadTagPreserves
  <2>6. CASE Compare  BY <2>6, ComparePreserves
  <2>7. CASE Conflicts  BY <2>7, ConflictsPreserves
  <2>8. CASE ListMatches  BY <2>8, ListMatchesPreserves
  <2>9. CASE ListMissing  BY <2>9, ListMissingPreserves
  <2>10. CASE ListStarter  BY <2>10, ListStarterPreserves
  <2>11. CASE ListConflict  BY <2>11, ListConflictPreserves
  <2>12. CASE Delete  BY <2>12, DeletePreserves
  <2>13. CASE Recheck  BY <2>13, RecheckPreserves
  <2>14. CASE Upload  BY <2>14, UploadPreserves
  <2>15. CASE UploadEnds  BY <2>15, UploadEndsPreserves
  <2>16. CASE UploadLost  BY <2>16, UploadLostPreserves
  <2>17. CASE Verify  BY <2>17, VerifyPreserves
  <2>18. CASE Publish  BY <2>18, PublishPreserves
  <2> QED  BY <1>2, <2>1, <2>2, <2>3, <2>4, <2>5, <2>6, <2>7, <2>8, <2>9, <2>10, <2>11
              , <2>12, <2>13, <2>14, <2>15, <2>16, <2>17, <2>18 DEF Run
<1>3. CASE Environment
  <2>1. CASE UploadCorrupted  BY <2>1, UploadCorruptedPreserves
  <2>2. CASE UploadFails  BY <2>2, UploadFailsPreserves
  <2>3. CASE Die  BY <2>3, DiePreserves
  <2>4. CASE \E n \in Names : OrphanEnds(n)  BY <2>4, OrphanEndsPreserves
  <2>5. CASE \E n \in Names : Attach(n)  BY <2>5, AttachPreserves
  <2>6. CASE \E n \in Names : Remove(n)  BY <2>6, RemovePreserves
  <2>7. CASE PublishByHand  BY <2>7, PublishByHandPreserves
  <2>8. CASE MoveTag  BY <2>8, MoveTagPreserves
  <2>9. CASE CleanUp  BY <2>9, CleanUpPreserves
  <2> QED  BY <1>3, <2>1, <2>2, <2>3, <2>4, <2>5, <2>6, <2>7, <2>8, <2>9 DEF Environment
<1>4. CASE UNCHANGED vars  BY <1>4, StutterPreserves
<1> QED  BY <1>1, <1>2, <1>3, <1>4 DEF Next

(* The invariant holds throughout.                                          *)
THEOREM Invariance == Spec => []IInv
<1>1. Init => IInv  BY InitIInv
<1>2. IInv /\ [Next]_vars => IInv'  BY NextIInv
<1> QED  BY <1>1, <1>2, PTL DEF Spec

(* Types; what the run reads and remembers is of the kind the code expects. *)
THEOREM TypeCorrect == Spec => []TypeOK
<1>1. IInv => TypeOK  BY DEF IInv
<1> QED  BY <1>1, Invariance, PTL

(* A release that a run has published has all assets of that run's build,   *)
(* and no other run, upload or person changes that.                         *)
THEOREM PublicationsAreWhole == Spec => []PublishedIsWhole
<1>1. IInv => PublishedIsWhole  BY DEF IInv
<1> QED  BY <1>1, Invariance, PTL

(* A run touches one more asset at the most once somebody has intervened.   *)
THEOREM InterferenceStopsRuns == Spec => []InterferenceIsNoticed
<1>1. IInv => InterferenceIsNoticed  BY DEF IInv
<1> QED  BY <1>1, Invariance, PTL
(* The steps that write to the release's assets, and all others.            *)
LEMMA OtherSteps ==
    ASSUME [Next]_vars
    PROVE  \/ UNCHANGED asset
           \/ Upload \/ Delete \/ CleanUp
           \/ UploadEnds \/ UploadCorrupted \/ UploadFails
           \/ \E n \in Names : OrphanEnds(n)
           \/ \E n \in Names : Attach(n)
           \/ \E n \in Names : Remove(n)
<1> USE DEF remote
<1>1. CASE \E b \in Builds : Begin(b)  BY <1>1 DEF Begin
<1>2. CASE Run
  BY <1>2 DEF Run, CheckTag, FindRelease, CreateDraft, ReadRelease, ReadTag, Proceed, Compare, Conflicts,
         ListMatches, ListMissing, ListStarter, ListConflict, Recheck, UploadLost, Verify, Publish
<1>3. CASE Environment  BY <1>3 DEF Environment, Die, PublishByHand, MoveTag
<1>4. CASE UNCHANGED vars  BY <1>4 DEF vars
<1> QED  BY <1>1, <1>2, <1>3, <1>4 DEF Next

(* The manifest appears by an upload, and the assets found by the listing   *)
(* before it are there unless one was removed.                              *)
THEOREM ManifestComesLast == Spec => ManifestIsLast
<1> DEFINE Step == \A b \in Builds :
          ~Exists(Last) /\ Exists(Last)' /\ asset'[Last].by = b /\ ~torn => Others(b)
<1>1. ASSUME IInv, [Next]_vars PROVE Step
  <2> USE <1>1, NamesAssumption, BuildsAssumption DEF IInv, TypeOK, Exists, Names
  <2>1. CASE Upload
    <3>1. CASE next = Last
      <4>1. asset'[Last] = asset[Last] \/ (at = "upload" /\ asset'[Last].by = build)
        BY <2>1, <3>1 DEF Upload
      <4> QED  BY <4>1, <3>1 DEF Verified
    <3>2. CASE next # Last  BY <2>1, <3>2 DEF Upload
    <3> QED  BY <3>1, <3>2
  <2>2. CASE \E n \in Names : Attach(n)
    <3>1. PICK n \in Names : Attach(n)  BY <2>2
    <3>2. asset'[Last] = asset[Last] \/ asset'[Last].by = Foreign  BY <3>1 DEF Attach
    <3> QED  BY <3>2
  <2>3. CASE Delete \/ CleanUp \/ \E n \in Names : Remove(n)
    BY <2>3 DEF Delete, CleanUp, Remove
  <2>4. CASE UploadEnds \/ UploadCorrupted \/ UploadFails
    BY <2>4 DEF UploadEnds, UploadCorrupted, UploadFails, Filling
  <2>5. CASE \E n \in Names : OrphanEnds(n)
    <3>1. PICK n \in Names : OrphanEnds(n)  BY <2>5
    <3>2. Exists(n) /\ \A m \in Names \ {n} : asset'[m] = asset[m]  BY <3>1 DEF OrphanEnds, Orphan
    <3> QED  BY <3>2
  <2>6. CASE UNCHANGED asset  BY <2>6
  <2> QED  BY <2>1, <2>2, <2>3, <2>4, <2>5, <2>6, OtherSteps
<1>2. Step => (\A b \in Builds :
          ~Exists(Last) /\ Exists(Last)' /\ asset'[Last].by = b /\ ~torn =>
              \A n \in 1 .. Last - 1 : Matches(n, b))
  BY DEF Others
<1> QED  BY <1>1, <1>2, Invariance, PTL DEF Spec, ManifestIsLast

(* A finished asset stays as it is until a person removes it: a run fills   *)
(* records of its own that are not finished, and deletes what it listed as  *)
(* an empty starter, which is finished only if the upload ended since.      *)
THEOREM FinishedAssetsStay == Spec => FinishedIsKept
<1> DEFINE Step == \A n \in Names : Uploaded(n) /\ asset'[n] # asset[n] =>
                      \/ meddled' # meddled
                      \/ asset'[n] = Nothing /\ n = next /\ asset[n].id = seen /\ overtaken
<1>1. ASSUME IInv, [Next]_vars PROVE Step
  <2> USE <1>1, BuildsAssumption DEF IInv, TypeOK, Exists, OwnRecords, Uploaded
  <2>1. CASE Upload  BY <2>1 DEF Upload
  <2>2. CASE Delete  BY <2>2 DEF Delete
  <2>3. CASE CleanUp \/ \E n \in Names : Attach(n) \/ Remove(n)
    BY <2>3 DEF CleanUp, Attach, Remove, Meddle
  <2>4. CASE UploadEnds \/ UploadCorrupted \/ UploadFails
    BY <2>4 DEF UploadEnds, UploadCorrupted, UploadFails, Filling
  <2>5. CASE \E n \in Names : OrphanEnds(n)  BY <2>5 DEF OrphanEnds, Orphan
  <2>6. CASE UNCHANGED asset  BY <2>6
  <2> QED  BY <2>1, <2>2, <2>3, <2>4, <2>5, <2>6, OtherSteps
<1> QED  BY <1>1, Invariance, PTL DEF Spec, FinishedIsKept
================================================================================
