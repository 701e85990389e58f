------------------------------ MODULE ServiceStore ----------------------------
(***************************************************************************)
(* internal/payment/persistence/json_file_store.go: the active services of *)
(* an agent, kept in one JSON file that every change rewrites: load, build *)
(* the new list, write it to a temporary file, fsync, close, rename.  The  *)
(* store's mutex is held throughout, the process may be killed and the     *)
(* machine may lose power between any two of these steps, and each of them *)
(* may fail.  A file is the map from request ids to entries it decodes to; *)
(* an entry is its state and its ExpiresAt, 0 for none.  A file of another *)
(* schema version counts as empty.                                         *)
(***************************************************************************)
EXTENDS Integers, Functions

CONSTANTS Goroutines,  \* the callers of the store in the running process
          RequestIDs,
          States,      \* the values of an entry's other fields
          MaxNow,      \* bound on the clock
          MaxCrashes   \* bound on kills and on power losses

ASSUME StoreAssumption == MaxNow \in Nat /\ MaxCrashes \in Nat

VARIABLES file,       \* the file at path as the running system sees it
          onDisk,     \* the file at path that a power loss brings back
          call,       \* call[g]: the change a caller is in the middle of
          storeClock, \* time.Now
          litter,     \* the temporary files nobody will remove
          crashes,    \* the kills and power losses so far
          kept,       \* history: what the calls that returned nil amount to
          powerLost,  \* history: whether the power was ever lost
          replayed    \* history: the answer of the last Replay, until something changes

storeVars == <<file, onDisk, call, storeClock, litter, crashes, kept, powerLost, replayed>>

ActiveServiceEntry == [state: States, expiresAt: 0..MaxNow]
Entries == UNION {[R -> ActiveServiceEntry] : R \in SUBSET RequestIDs}

\* An unsynced file is lost by a power loss: what is left of it does not parse.
File == [entries: Entries, synced: BOOLEAN, torn: BOOLEAN]
Empty == [entries |-> << >>, synced |-> TRUE, torn |-> FALSE]

Stages == <<"create", "write", "sync", "close", "rename">>
Idle == [stage |-> "idle"]
None == [answered |-> FALSE]

StoreTypeOK ==
  /\ file \in File /\ onDisk \in File
  /\ \A g \in Goroutines :
       \/ call[g] = Idle
       \/ call[g] \in [stage: {Stages[i] : i \in 1..5}, entries: Entries,
                     put: Entries, drop: SUBSET RequestIDs]
  /\ storeClock \in 0..MaxNow
  /\ crashes \in 0..MaxCrashes
  /\ litter \in 0..MaxCrashes
  /\ kept \in Entries

\* A file of another schema version is one that reads as empty.
StoreInit ==
  /\ file = Empty /\ onDisk = Empty
  /\ call = [g \in Goroutines |-> Idle]
  /\ storeClock = 0 /\ litter = 0 /\ crashes = 0
  /\ kept = << >> /\ powerLost = FALSE /\ replayed = None

-----------------------------------------------------------------------------

Expired(entry) == entry.expiresAt # 0 /\ entry.expiresAt <= storeClock

Live(entries) == Restrict(entries, {id \in DOMAIN entries : ~Expired(entries[id])})

Locked == \E g \in Goroutines : call[g] # Idle

\* The new list is the loaded one with the entries of put in it and those of drop out.
Apply(entries, put, drop) ==
  [id \in DOMAIN put \cup (DOMAIN entries \ drop) |->
     IF id \in DOMAIN put THEN put[id] ELSE entries[id]]

\* Faulty variant: the file is read before the mutex is taken.
rewriteUnlocked(g, put, drop) ==
  /\ call[g] = Idle
  /\ ~file.torn
  /\ call' = [call EXCEPT ![g] = [stage |-> "create", put |-> put, drop |-> drop,
                                  entries |-> Apply(file.entries, put, drop)]]
  /\ UNCHANGED <<file, onDisk, storeClock, litter, crashes, kept, powerLost, replayed>>

\* Lock, load and build the new list.  load fails on a file that does not parse.
Rewrite(g, put, drop) ==
  /\ ~Locked
  /\ ~file.torn
  /\ call' = [call EXCEPT ![g] = [stage |-> "create", put |-> put, drop |-> drop,
                                  entries |-> Apply(file.entries, put, drop)]]
  /\ UNCHANGED <<file, onDisk, storeClock, litter, crashes, kept, powerLost, replayed>>

Save(g, id, entry) == Rewrite(g, [i \in {id} |-> entry], {})

\* Delete of an unknown id and Evict of nothing return at once, without a write.
Delete(g, id) == id \in DOMAIN file.entries /\ Rewrite(g, << >>, {id})

Evict(g) ==
  LET expired == DOMAIN file.entries \ DOMAIN Live(file.entries) IN
  expired # {} /\ Rewrite(g, << >>, expired)

Replay ==
  /\ ~Locked /\ ~file.torn
  /\ replayed' = [answered |-> TRUE, entries |-> Live(file.entries)]
  /\ UNCHANGED <<file, onDisk, call, storeClock, litter, crashes, kept, powerLost>>

Following(stage) == Stages[(CHOOSE i \in 1..4 : Stages[i] = stage) + 1]

\* create, write, sync and close of the temporary file.
WriteTemp(g) ==
  /\ call[g].stage \in {"create", "write", "sync", "close"}
  /\ call' = [call EXCEPT ![g].stage = Following(@)]
  /\ UNCHANGED <<file, onDisk, storeClock, litter, crashes, kept, powerLost, replayed>>

\* The file is synced by then; its new name in the directory is not.
Rename(g) ==
  /\ call[g].stage = "rename"
  /\ file' = [entries |-> call[g].entries, synced |-> TRUE, torn |-> FALSE]
  /\ kept' = Apply(kept, call[g].put, call[g].drop)
  /\ call' = [call EXCEPT ![g] = Idle]
  /\ replayed' = None
  /\ UNCHANGED <<onDisk, storeClock, litter, crashes, powerLost>>

\* Every failing step removes the temporary file and returns the error.
Fail(g) ==
  /\ call[g].stage # "idle"
  /\ call' = [call EXCEPT ![g] = Idle]
  /\ UNCHANGED <<file, onDisk, storeClock, litter, crashes, kept, powerLost, replayed>>

\* A temporary file exists from the end of "create" on.
Abandoned == {g \in Goroutines : call[g].stage \notin {"idle", "create"}}

Kill ==
  /\ crashes < MaxCrashes
  /\ crashes' = crashes + 1
  /\ call' = [g \in Goroutines |-> Idle]
  /\ litter' = IF Abandoned = {} THEN litter ELSE litter + 1
  /\ UNCHANGED <<file, onDisk, storeClock, kept, powerLost, replayed>>

\* The directory reaches the disk when the system chooses: nobody syncs it.
Flush ==
  /\ onDisk # file
  /\ onDisk' = file
  /\ UNCHANGED <<file, call, storeClock, litter, crashes, kept, powerLost, replayed>>

PowerLoss ==
  /\ crashes < MaxCrashes
  /\ crashes' = crashes + 1
  /\ powerLost' = TRUE
  /\ file' = [onDisk EXCEPT !.torn = ~onDisk.synced]
  /\ onDisk' = file'
  /\ call' = [g \in Goroutines |-> Idle]
  /\ litter' = IF Abandoned = {} THEN litter ELSE litter + 1
  /\ UNCHANGED <<storeClock, kept, replayed>>

StoreTick ==
  /\ storeClock < MaxNow
  /\ storeClock' = storeClock + 1
  /\ replayed' = None
  /\ UNCHANGED <<file, onDisk, call, litter, crashes, kept, powerLost>>

StoreNext ==
  \/ \E g \in Goroutines, id \in RequestIDs :
       Delete(g, id) \/ \E entry \in ActiveServiceEntry : Save(g, id, entry)
  \/ \E g \in Goroutines : Evict(g) \/ WriteTemp(g) \/ Rename(g) \/ Fail(g)
  \/ Replay \/ Kill \/ Flush \/ PowerLoss \/ StoreTick

StoreSpec == StoreInit /\ [][StoreNext]_storeVars

-----------------------------------------------------------------------------

\* A power loss between any two steps leaves a file that parses: the temporary file is
\* synced before it takes the place of the old one (json_file_store.go:104).
FileIsWhole == ~file.torn

\* As long as the power holds, the file is exactly what the calls that returned nil amount
\* to, whatever steps of other calls failed or were cut short by a kill.
FileIsWhatWasSaved == ~powerLost => file.entries = kept

\* Only a crash leaves a temporary file behind.
TempFilesAreRemoved == litter <= crashes

\* A restarted agent takes up exactly the services that were saved, not deleted and have
\* not expired, the moment of the expiry excluded (store.go:74).
ReplayIsExact == replayed.answered /\ ~powerLost => replayed.entries = Live(kept)

\* What the store promises of the file, of the directory and of the next start, together.
StoreKeeps == FileIsWhole /\ FileIsWhatWasSaved /\ TempFilesAreRemoved /\ ReplayIsExact
=============================================================================
