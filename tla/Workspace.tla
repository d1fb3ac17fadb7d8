------------------------------ MODULE Workspace ------------------------------
(***************************************************************************)
(* The directories agents work in (executor/src/workspace.ts): temporary     *)
(* directories, git worktrees and shared volumes are created and removed by   *)
(* asynchronous calls, any number at a time, and disposeAll cleans up what   *)
(* was recorded when it was called, one after another.                      *)
(***************************************************************************)
EXTENDS FiniteSets

CONSTANTS
  Workspaces,     \* ids: create generates one per call
  Configs         \* whether to clean up, and whether paths, branch and repository are accepted

VARIABLES
  config,         \* config[w]: what w was created with, or Unused
  making,         \* calls of create in progress: w to "asked" or "made"
  workspaces,     \* the recorded ones
  cleanupInProgress,
  disk,           \* the directories that exist
  leftovers,      \* whose removal failed
  disposal        \* disposeAll: at, found, todo, awaited

workspaceVars == <<config, making, workspaces, cleanupInProgress, disk, leftovers, disposal>>

Unused == [cleanup |-> FALSE, valid |-> FALSE]

-----------------------------------------------------------------------------
Init ==
  /\ config = [w \in Workspaces |-> Unused]
  /\ making = [w \in Workspaces |-> "no"]
  /\ workspaces = {} /\ cleanupInProgress = {} /\ disk = {} /\ leftovers = {}
  /\ disposal = [at |-> "idle", found |-> {}, todo |-> {}, awaited |-> {}]

Create(w, c) ==
  /\ config[w] = Unused
  /\ config' = [config EXCEPT ![w] = c] /\ making' = [making EXCEPT ![w] = "asked"]
  /\ UNCHANGED <<workspaces, cleanupInProgress, disk, leftovers, disposal>>

\* mkdtemp, mkdir or `git worktree add'.
MakeDirectory(w) ==
  /\ making[w] = "asked" /\ config[w].valid
  /\ disk' = disk \cup {w} /\ making' = [making EXCEPT ![w] = "made"]
  /\ UNCHANGED <<config, workspaces, cleanupInProgress, leftovers, disposal>>

\* A path outside the allowed roots, a bad branch, or the command fails.
CreateThrows(w) ==
  /\ making[w] = "asked" /\ making' = [making EXCEPT ![w] = "no"]
  /\ UNCHANGED <<config, workspaces, cleanupInProgress, disk, leftovers, disposal>>

Record(w) ==
  /\ making[w] = "made"
  /\ workspaces' = workspaces \cup {w} /\ making' = [making EXCEPT ![w] = "no"]
  /\ UNCHANGED <<config, cleanupInProgress, disk, leftovers, disposal>>

-----------------------------------------------------------------------------
\* What cleanup does before its first await.  A call for a workspace that is
\* being cleaned up, or is not recorded, returns at once; one that is to be
\* kept is only forgotten.
BeginCleanup(w) ==
  CASE w \in cleanupInProgress \/ w \notin workspaces -> UNCHANGED <<workspaces, cleanupInProgress>>
    [] OTHER -> IF config[w].cleanup
                THEN cleanupInProgress' = cleanupInProgress \cup {w} /\ UNCHANGED workspaces
                ELSE workspaces' = workspaces \ {w} /\ UNCHANGED cleanupInProgress

Cleanup(w) ==
  /\ config[w] # Unused /\ BeginCleanup(w)
  /\ UNCHANGED <<config, making, disk, leftovers, disposal>>

Forget_IfRemoved(w, removed) == workspaces' = IF removed THEN workspaces \ {w} ELSE workspaces

\* An error is logged, and the record goes all the same.
Forget(w, removed) == workspaces' = workspaces \ {w}

\* The directory is removed, a worktree by git or else by hand, or neither works.
RemovalEnds(w) ==
  /\ w \in cleanupInProgress /\ cleanupInProgress' = cleanupInProgress \ {w}
  /\ \E removed \in BOOLEAN :
       /\ disk' = IF removed THEN disk \ {w} ELSE disk
       /\ leftovers' = IF removed THEN leftovers ELSE leftovers \cup {w}
       /\ Forget(w, removed)
  /\ disposal' = [disposal EXCEPT !.awaited = @ \ {w}]
  /\ UNCHANGED <<config, making>>

DisposeAll ==
  /\ disposal.at # "running"
  /\ disposal' = [at |-> "running", found |-> workspaces, todo |-> workspaces, awaited |-> {}]
  /\ UNCHANGED <<config, making, workspaces, cleanupInProgress, disk, leftovers>>

\* It awaits only a removal it began itself.  The order is the map's; any here.
DisposeNext(w) ==
  /\ disposal.at = "running" /\ disposal.awaited = {} /\ w \in disposal.todo
  /\ BeginCleanup(w)
  /\ disposal' = [disposal EXCEPT !.todo = @ \ {w}, !.awaited = cleanupInProgress' \ cleanupInProgress]
  /\ UNCHANGED <<config, making, disk, leftovers>>

DisposeEnds ==
  /\ disposal.at = "running" /\ disposal.awaited = {} /\ disposal.todo = {}
  /\ disposal' = [disposal EXCEPT !.at = "done"]
  /\ UNCHANGED <<config, making, workspaces, cleanupInProgress, disk, leftovers>>

WorkspaceNext ==
  \/ \E w \in Workspaces :
       \/ \E c \in Configs : Create(w, c)
       \/ MakeDirectory(w) \/ CreateThrows(w) \/ Record(w)
       \/ Cleanup(w) \/ RemovalEnds(w) \/ DisposeNext(w)
  \/ DisposeAll \/ DisposeEnds

-----------------------------------------------------------------------------
(* No directory is lost track of, except one that was to be kept or could not *)
(* be removed; and when disposeAll ends, what it found is forgotten or is     *)
(* being removed by somebody else.                                           *)
DirectoriesAreAccounted ==
  /\ \A w \in disk : w \in workspaces \/ making[w] = "made" \/ w \in leftovers \/ ~config[w].cleanup
  /\ disposal.at = "done" => disposal.found \cap workspaces \subseteq cleanupInProgress

(* Not kept: disposeAll returns while removals other calls began go on, and   *)
(* what is created meanwhile stays.                                          *)
DisposedIsEmpty == disposal.at = "done" => \A w \in disposal.found : w \in disk => w \in leftovers \/ ~config[w].cleanup
=============================================================================
