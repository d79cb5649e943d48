----------------------------- MODULE LocalReload ----------------------------
(* The local configuration file: read once, then again whenever a watcher  *)
(* says that it changed. Each load replaces what the previous one put into *)
(* the two stores.                                                         *)
EXTENDS Naturals, FiniteSets

CONSTANTS Item,      \* binds, policies and backends of a file
          Wl,        \* its workloads and services
          BadWl,     \* those whose service names do not parse
          MaxEdits   \* how often the file is written

ASSUME BadAssumption == BadWl \subseteq Wl
ASSUME EditsAssumption == MaxEdits \in Nat

VARIABLES file,      \* the file: whether it parses, and what it says
          edits,
          changed,   \* the watcher's debounced event, not yet taken
          loader,    \* the task that reloads
          prev,      \* what the last load that succeeded put in place
          binds, discovery,   \* the stores
          partial    \* ghost: what loads that failed half way put in place

reloadVars == <<file, edits, changed, loader, prev, binds, discovery, partial>>

Files == [parses : BOOLEAN, items : SUBSET Item, wls : SUBSET Wl]
Nothing == [items |-> {}, wls |-> {}]

ReloadInit ==
  /\ file \in [parses : {TRUE}, items : SUBSET Item, wls : SUBSET Wl]
  /\ edits = 0 /\ changed = FALSE
  /\ loader = [phase |-> "reading", read |-> file, first |-> TRUE]
  /\ prev = Nothing
  /\ binds = {} /\ discovery = {} /\ partial = Nothing

(* The file is written; the watcher sees it, if it is there already.       *)
Edit ==
  /\ edits < MaxEdits
  /\ edits' = edits + 1
  /\ file' \in Files /\ file' # file
  /\ changed' = TRUE
  /\ UNCHANGED <<loader, prev, binds, discovery, partial>>

(* The watching task takes an event and reads the file as it is then.      *)
ReadFile ==
  /\ loader.phase = "watching" /\ changed
  /\ changed' = FALSE
  /\ loader' = [loader EXCEPT !.phase = "reading", !.read = file]
  /\ UNCHANGED <<file, edits, prev, binds, discovery, partial>>

(* A load that fails leaves the previous state as it is; the first one     *)
(* ends the program.                                                       *)
Ended(ok) == [loader EXCEPT !.phase = IF ~ok /\ loader.first THEN "stopped" ELSE "watching",
                            !.first = FALSE]

(* A file that does not parse changes nothing.                             *)
ParseFails ==
  /\ loader.phase = "reading" /\ ~loader.read.parses
  /\ loader' = Ended(FALSE)
  /\ UNCHANGED <<file, edits, changed, prev, binds, discovery, partial>>

(* Mutant of Synced: what is gone from the file stays in the store.        *)
SyncedAdding(store, old, new) == store \cup new
(* sync_local: everything of the file goes in, and what only the previous  *)
(* load had comes out.                                                     *)
Synced(store, old, new) == (store \cup new) \ (old \ new)

SyncBinds ==
  /\ loader.phase = "reading" /\ loader.read.parses
  /\ binds' = Synced(binds, prev.items, loader.read.items)
  /\ loader' = [loader EXCEPT !.phase = "discovery"]
  /\ UNCHANGED <<file, edits, changed, prev, discovery, partial>>

(* What this load put in place.                                            *)
Kept(read) == [items |-> read.items, wls |-> read.wls]

SyncDiscovery ==
  /\ loader.phase = "discovery"
  /\ loader.read.wls \cap BadWl = {}
  /\ discovery' = Synced(discovery, prev.wls, loader.read.wls)
  /\ prev' = Kept(loader.read)
  /\ loader' = Ended(TRUE)
  /\ UNCHANGED <<file, edits, changed, binds, partial>>

(* A workload that does not parse ends the load: those before it are in    *)
(* the store, it too, and nothing is taken out.                            *)
SyncFails ==
  /\ loader.phase = "discovery"
  /\ \E bad \in loader.read.wls \cap BadWl, before \in SUBSET (loader.read.wls \ BadWl) :
       /\ discovery' = discovery \cup before \cup {bad}
       /\ partial' = [items |-> partial.items \cup loader.read.items,
                      wls |-> partial.wls \cup before \cup {bad}]
  /\ loader' = Ended(FALSE)
  /\ UNCHANGED <<file, edits, changed, prev, binds>>

(* An error of the watcher ends the watching task.                         *)
WatcherFails ==
  /\ loader.phase = "watching"
  /\ loader' = [loader EXCEPT !.phase = "stopped"]
  /\ UNCHANGED <<file, edits, changed, prev, binds, discovery, partial>>

Load == ReadFile \/ ParseFails \/ SyncBinds \/ SyncDiscovery \/ SyncFails
ReloadNext == Edit \/ Load \/ WatcherFails

(* The watching task runs whenever it can.                                 *)
ReloadFairness == WF_reloadVars(Load)
ReloadSpec == ReloadInit /\ [][ReloadNext]_reloadVars /\ ReloadFairness

-----------------------------------------------------------------------------
(* Properties.                                                             *)

(* Every part of the state has its type.                                   *)
ReloadTypeOK ==
  /\ file \in Files /\ edits \in 0..MaxEdits /\ changed \in BOOLEAN
  /\ loader \in [phase : {"watching", "reading", "discovery", "stopped"}, read : Files,
                 first : BOOLEAN]
  /\ prev \in [items : SUBSET Item, wls : SUBSET Wl]
  /\ binds \subseteq Item /\ discovery \subseteq Wl
  /\ partial \in [items : SUBSET Item, wls : SUBSET Wl]

(* Between loads the stores hold what the last good load put there, and    *)
(* besides only what a load that failed half way left behind: binds are    *)
(* synchronised before discovery, and the previous state is kept when      *)
(* discovery fails, so that what the failed load added is never removed.   *)
OnlyFailedLoadsLeave ==
  loader.phase = "watching" =>
    /\ binds \ prev.items \subseteq partial.items
    /\ discovery \ prev.wls \subseteq partial.wls

(* What the previous state names is in the stores, as long as no load      *)
(* failed half way: a load can always take out what the one before put in. *)
PreviousIsInPlace ==
  loader.phase = "watching" /\ partial = Nothing => binds = prev.items /\ discovery = prev.wls

(* A load replaces what the one before it put into the stores.             *)
LoadsReplace ==
  /\ ReloadTypeOK
  /\ OnlyFailedLoadsLeave
  /\ PreviousIsInPlace

(* A file that is written while it is being loaded is loaded again: when   *)
(* all is quiet and it parses, the binds of the stores are its own, unless *)
(* a load failed half way or the watcher has stopped.                      *)
LastEditIsServed ==
  <>[](\/ loader.phase = "stopped" \/ partial # Nothing \/ ~file.parses
       \/ binds = file.items /\ discovery = file.wls)
=============================================================================
