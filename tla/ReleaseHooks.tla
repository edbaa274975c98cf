---------------------------- MODULE ReleaseHooks ---------------------------
(***************************************************************************)
(* A release while it is uploaded: the end of each STOR, which checks the  *)
(* file against the SFV, the post-upload hooks of the release, which run   *)
(* through PostHookQueue, and what they do with bad files, with the parsed *)
(* SFV and with the COMPLETE announce.  The section has race statistics by *)
(* SFV and delete_bad_crc.                                                 *)
(*                                                                         *)
(* Every job is an upload of one file of the release, payload or SFV, with *)
(* the checksum that the SFV lists, with another one, or with none: zero,  *)
(* the CRC of an empty file, stands for a checksum that is not known.      *)
(* What happens before the file is stored and indexed is in FtpTransfer.   *)
(* A parse verifies what is there in one step; each of its deletions, on   *)
(* the slave and in the index, may fail.                                   *)
(***************************************************************************)
EXTENDS PostHookQueue

CONSTANTS
  Payload, Sfv,   \* the files of the release
  Settings        \* what may happen besides, one of: sets of Happens

Files == Payload \cup {Sfv}

\* Uploads with a bad checksum and with none, DELE, and the slave that fails to read an
\* SFV and to delete a file.
Happens == {"bad", "empty", "delete", "fail", "stuck"}

ASSUME ReleaseAssumption ==
  Sfv \notin Payload /\ \A s \in Settings : s \subseteq Happens

VARIABLES
  may,        \* the setting, fixed from the start
  hand,       \* the handler of each upload: no, stored, checked, over
  file, bad,  \* what each uploads, and the uploads with a bad checksum
  index,      \* the release's files: absent, of known checksum: good, bad, spared (bad, and
              \* its last deletion has failed), or of unknown checksum
  left,       \* files out of the index which the slave has failed to delete
  cached,     \* the SFV's entries are in dirMeta
  hook,       \* where the hook is that a queue's goroutine runs, and what it has seen
  announced   \* completedRaces has the release

raceVars == <<may, hand, file, bad, index, left, cached, hook, announced>>
vars == <<queueVars, raceVars>>

Entries == {"absent", "good", "bad", "spared", "unknown"}
HookStates ==
  [step : {"no", "finalize", "build", "count", "emit"}, sfv : BOOLEAN, complete : BOOLEAN]
NoHook == [step |-> "no", sfv |-> FALSE, complete |-> FALSE]

TypeOK ==
  /\ QueueTypeOK
  /\ may \in Settings
  /\ hand \in [Jobs -> {"no", "stored", "checked", "over"}]
  /\ file \in [Jobs -> Files] /\ bad \subseteq Jobs
  /\ index \in [Files -> Entries] /\ left \subseteq Payload
  /\ cached \in BOOLEAN
  /\ hook \in [Jobs -> HookStates]
  /\ announced \in BOOLEAN

Init ==
  /\ QueueInit
  /\ may \in Settings
  /\ hand = [j \in Jobs |-> "no"]
  /\ file = [j \in Jobs |-> Sfv] /\ bad = {}
  /\ index = [f \in Files |-> "absent"] /\ left = {}
  /\ cached = FALSE
  /\ hook = [j \in Jobs |-> NoHook]
  /\ announced = FALSE

SfvValid == cached /\ index[Sfv] # "absent"

Complete == SfvValid /\ \A f \in Payload : index[f] = "good"

(***************************************************************************)
(* The handler of STOR, once the file is stored.                           *)
(***************************************************************************)

Uploading(j) == hand[j] \in {"stored", "checked"} /\ at[j] # "returned"

\* The slave refuses a name it still has.
Store(j, f, crc) ==
  /\ hand[j] = "no" /\ index[f] = "absent" /\ f \notin left
  /\ \A k \in Jobs : Uploading(k) => file[k] # f
  /\ \/ crc = "good"
     \/ crc = "bad" /\ "bad" \in may /\ f # Sfv
     \/ crc = "unknown" /\ "empty" \in may /\ f # Sfv
  /\ hand' = [hand EXCEPT ![j] = "stored"]
  /\ file' = [file EXCEPT ![j] = f]
  /\ bad' = IF crc = "bad" THEN bad \cup {j} ELSE bad
  /\ index' = [index EXCEPT ![f] = crc]
  /\ UNCHANGED <<queueVars, may, left, cached, hook, announced>>

\* A file is deleted and taken out of the index, which is done whether the slave has
\* deleted it or not.
Without(fs) == index' = [f \in Files |-> IF f \in fs THEN "absent" ELSE index[f]]
Leaves(fs) ==
  \/ left' = left
  \/ "stuck" \in may /\ left' = left \cup {f \in fs : index[f] # "absent"}

Bad == {f \in Payload : index[f] \in {"bad", "spared"}}

\* Mutant: a file without an SFV is left for good, as no parse looks back.
ParseSfvOnly(own) ==
  /\ index[Sfv] # "absent"
  /\ cached' = TRUE
  /\ Without(own) /\ Leaves(own)

\* GetSFVInfo asks the slave, and may fail; CacheSFV; and what is there already, and of
\* known checksum, is verified against it.  A bad file that cannot be deleted stays in the
\* index; not so the handler's own, which it deletes once more.
ParseSfv(own) ==
  /\ index[Sfv] # "absent"
  /\ cached' = TRUE
  /\ \E spared \in IF "stuck" \in may THEN SUBSET (Bad \ own) ELSE {{}} :
       index' = [f \in Files |-> IF f \in spared THEN "spared"
                                 ELSE IF f \in Bad \cup own THEN "absent" ELSE index[f]]
  /\ Leaves(own)

NoParse == UNCHANGED <<cached, index, left>>

OwnBad(j) == IF j \in bad THEN {file[j]} ELSE {}

\* handleMasterUploadSFVStatusAndCleanup: a payload is checked against the SFV,
\* which is parsed now if it has not been; a bad one is deleted.
Check(j) ==
  /\ hand[j] = "stored"
  /\ \/ /\ file[j] = Sfv
        /\ NoParse
        /\ hand' = [hand EXCEPT ![j] = "checked"]
     \/ /\ file[j] # Sfv /\ SfvValid
        /\ UNCHANGED cached
        /\ Without(OwnBad(j)) /\ Leaves(OwnBad(j))
        /\ hand' = [hand EXCEPT ![j] = IF j \in bad THEN "over" ELSE "checked"]
     \/ /\ file[j] # Sfv /\ ~SfvValid /\ ParseSfv(OwnBad(j))
        /\ hand' = [hand EXCEPT ![j] = IF j \in bad THEN "over" ELSE "checked"]
     \/ /\ file[j] # Sfv /\ ~SfvValid
        /\ index[Sfv] = "absent" \/ "fail" \in may
        /\ NoParse
        /\ hand' = [hand EXCEPT ![j] = "checked"]
  /\ UNCHANGED <<queueVars, may, file, bad, hook, announced>>

\* queueMasterUploadPostHooks: 226 has been sent.
Enqueue(j) ==
  /\ hand[j] = "checked"
  /\ EnqueueStep(j)
  /\ UNCHANGED raceVars

(***************************************************************************)
(* The hook: runReleaseUploadPipeline.                                     *)
(***************************************************************************)

At(q, step) == runner[q] = "busy" /\ hook[q].step = step
HookGoes(q, step) == hook' = [hook EXCEPT ![q].step = step]
OfSfv(q) == file[running[q]] = Sfv

StartHook(q) ==
  /\ Take(q)
  /\ HookGoes(q, "finalize")
  /\ UNCHANGED <<may, hand, file, bad, index, left, cached, announced>>

EndHook(q) == TaskEnds(q) /\ hook' = [hook EXCEPT ![q] = NoHook]

\* finalizeReleaseUpload compares the checksum of its upload, not of what is now
\* in the file's place, and deletes the file by name.
Finalize(q) ==
  /\ At(q, "finalize")
  /\ IF ~OfSfv(q) /\ SfvValid /\ running[q] \in bad
     THEN Without({file[running[q]]}) /\ Leaves({file[running[q]]}) /\ EndHook(q)
     ELSE HookGoes(q, "build") /\ UNCHANGED <<index, left, queueVars>>
  /\ UNCHANGED <<may, hand, file, bad, cached, announced>>

\* Mutant: the statistics are taken before the SFV is parsed.
BuildCounted(q) ==
  /\ At(q, "build")
  /\ \/ OfSfv(q) /\ ParseSfv({})
     \/ OfSfv(q) /\ NoParse /\ (index[Sfv] = "absent" \/ "fail" \in may)
     \/ ~OfSfv(q) /\ SfvValid /\ NoParse
     \/ ~OfSfv(q) /\ ~SfvValid /\ ParseSfv({})
     \/ ~OfSfv(q) /\ ~SfvValid /\ NoParse /\ (index[Sfv] = "absent" \/ "fail" \in may)
  /\ hook' = [hook EXCEPT ![q] = [step |-> "emit", sfv |-> SfvValid, complete |-> Complete]]
  /\ UNCHANGED <<queueVars, may, hand, file, bad, announced>>

\* The SFV is parsed by its own hook, and by the hook of a payload that finds it
\* there unparsed.
Build(q) ==
  /\ At(q, "build")
  /\ \/ OfSfv(q) /\ ParseSfv({})
     \/ OfSfv(q) /\ NoParse /\ (index[Sfv] = "absent" \/ "fail" \in may)
     \/ ~OfSfv(q) /\ SfvValid /\ NoParse
     \/ ~OfSfv(q) /\ ~SfvValid /\ ParseSfv({})
     \/ ~OfSfv(q) /\ ~SfvValid /\ NoParse /\ (index[Sfv] = "absent" \/ "fail" \in may)
  /\ hook' = [hook EXCEPT ![q] = [step |-> "count", sfv |-> SfvValid', complete |-> FALSE]]
  /\ UNCHANGED <<queueVars, may, hand, file, bad, announced>>

\* Mutant: a file counts as soon as it is indexed.
CountPresent(q) ==
  /\ At(q, "count")
  /\ hook' = [hook EXCEPT ![q].step = "emit",
                          ![q].complete = SfvValid /\ \A f \in Payload : index[f] # "absent"]
  /\ UNCHANGED <<queueVars, may, hand, file, bad, index, left, cached, announced>>

\* computeReleaseRaceSnapshot: only files with the checksum the SFV lists count.
Count(q) ==
  /\ At(q, "count")
  /\ hook' = [hook EXCEPT ![q].step = "emit", ![q].complete = Complete]
  /\ UNCHANGED <<queueVars, may, hand, file, bad, index, left, cached, announced>>

Emit(q) ==              \* emitReleaseUploadEventAndRace, markRaceCompleteOnce
  /\ At(q, "emit")
  /\ announced' = (announced \/ (hook[q].sfv /\ hook[q].complete))
  /\ EndHook(q)
  /\ UNCHANGED <<may, hand, file, bad, index, left, cached>>

EndQueue(q) == Idle(q) /\ UNCHANGED raceVars

(***************************************************************************)
(* Others.                                                                 *)
(***************************************************************************)

Delete(f) ==            \* DELE; the SFV's entries go with it
  /\ "delete" \in may /\ index[f] # "absent"
  /\ Without({f})
  /\ cached' = (cached /\ f # Sfv)
  /\ UNCHANGED <<queueVars, may, hand, file, bad, left, hook, announced>>

\* A remerge finds a file that has been left, and cannot tell its checksum.
Return(f) ==
  /\ f \in left /\ index[f] = "absent"
  /\ index' = [index EXCEPT ![f] = "unknown"]
  /\ left' = left \ {f}
  /\ UNCHANGED <<queueVars, may, hand, file, bad, cached, hook, announced>>

(***************************************************************************)
(* The specification.                                                      *)
(***************************************************************************)

Handle(j) == Check(j) \/ Enqueue(j)

RunHooks(q) ==
  \/ StartHook(q) \/ Finalize(q) \/ Build(q) \/ Count(q) \/ Emit(q) \/ EndQueue(q)

Next ==
  \/ \E j \in Jobs, f \in Files, crc \in Entries : Store(j, f, crc)
  \/ \E j \in Jobs : Handle(j) \/ RunHooks(j)
  \/ \E f \in Files : Delete(f) \/ Return(f)

Spec == Init /\ [][Next]_vars

(***************************************************************************)
(* Properties.                                                             *)
(***************************************************************************)

Quiet == \A j \in Jobs : ~Uploading(j) /\ (at[j] = "no" \/ j \in done)

\* Every file is there as the SFV lists it, and the SFV, whether it has been parsed or not.
Whole == index[Sfv] # "absent" /\ \A f \in Payload : index[f] = "good"

\* When all hooks have run, a release that is complete has been announced, in
\* whatever order its files and its SFV have come (zipscript_runtime.go:1323-1329).
\* Its SFV has been parsed by then, unless the slave fails to: README, Known departures.
CompleteIsAnnounced == Quiet /\ (Complete \/ ("fail" \notin may /\ Whole)) => announced

\* It is not announced before: not while a file is there that has not been checked
\* yet and is bad (vfs.go:2191-2203).
CompleteIsTrue == [][announced' /\ ~announced /\ "delete" \notin may => Complete]_vars

\* delete_bad_crc: when all hooks have run, a release whose SFV is known has no file of a
\* known and bad checksum, whether the SFV came before it, after it, or in between its
\* checks, unless the slave failed to delete it when the SFV was parsed, which only
\* another parse or SITE RESCAN tries again (zipscript_runtime.go:1264-1268).  What is said of the index is not said
\* of the slave's disk (509-539), nor of files of unknown checksum (1256-1259).
BadIsGone == Quiet /\ SfvValid => \A f \in Payload : index[f] # "bad"
=============================================================================
