----------------------------- MODULE RepoSessions -----------------------------
(***************************************************************************)
(* Which repositories are open: internal/repo/registry.go, and what        *)
(* internal/api keeps beside an open one and hands back when it closes,    *)
(* the watch, the warning that there is none (unwatched.go) and the branch *)
(* deletion Undo can reverse (deleted.go).                                 *)
(*                                                                         *)
(* A repository is named by its path: the identifier of the code is a hash *)
(* of it.  What is at the path is a directory, known by an inode number    *)
(* that is never used twice while somebody has it open.  Anything may take *)
(* its place between two steps.  The checks against the root, and the part *)
(* of Watch that Watcher models, are left out.                             *)
(***************************************************************************)
EXTENDS Integers, Sequences, FiniteSets, Sifting

CONSTANTS
    Repos,      \* the paths repositories are opened at
    Callers,    \* request handlers at work at the same time
    MaxCalls,   \* bound: requests served
    MaxInodes,  \* bound: directories ever made
    NoRepo

ASSUME RegistryAssumption ==
    /\ {MaxCalls, MaxInodes} \subseteq Nat
    /\ NoRepo \notin Repos

VARIABLES
    inode,      \* the git directory at each path; 0 when there is none
    inodes,     \* the inodes used so far
    byID,       \* Registry.byID: the inode of the entry's identity, or 0
    order,      \* Registry.order
    pinned,     \* open descriptors on each repository's git directory
    watched,    \* the directory the watcher follows for each repository, or 0
    reason,     \* unwatched.reason has an entry
    lostBranch, \* deletions.byID: which directory lost the branch, or 0
    call,       \* what each handler is doing
    crossed,    \* two handlers of a repository have met, for the properties
    calls

onDisk == <<inode, inodes>>
registry == <<byID, order, pinned>>
beside == <<watched, reason, lostBranch>>
callers == <<call, crossed, calls>>
registryVars == <<onDisk, registry, beside, callers>>

Idle == [at |-> "idle", repo |-> NoRepo, found |-> 0]

RegistryInit ==
    /\ inode = [r \in Repos |-> 0]
    /\ inodes = 0
    /\ byID = [r \in Repos |-> 0]
    /\ order = <<>>
    /\ pinned = [r \in Repos |-> 0]
    /\ watched = [r \in Repos |-> 0]
    /\ reason = [r \in Repos |-> FALSE]
    /\ lostBranch = [r \in Repos |-> 0]
    /\ call = [c \in Callers |-> Idle]
    /\ crossed = [r \in Repos |-> FALSE]
    /\ calls = 0

Proceed(c, step) == call' = [call EXCEPT ![c].at = step]
Finish(c) == call' = [call EXCEPT ![c] = Idle]

-----------------------------------------------------------------------------
(* The disk. *)

\* A repository is made at a path: for the first time, or over another.
Make(r) ==
    /\ inodes < MaxInodes
    /\ inodes' = inodes + 1
    /\ inode' = [inode EXCEPT ![r] = inodes + 1]
    /\ UNCHANGED <<registry, beside, callers>>

Remove(r) ==
    /\ inode[r] # 0
    /\ inode' = [inode EXCEPT ![r] = 0]
    /\ UNCHANGED <<inodes, registry, beside, callers>>

-----------------------------------------------------------------------------
(* The registry, each call under its mutex. *)

Without(r) == Sifted(order, {i \in DOMAIN order : order[i] # r})

Released(r) == [pinned EXCEPT ![r] = @ - 1]

SameDirectory(r, identity) == inode[r] # 0 /\ inode[r] = identity

Busy(r) == \E c \in Callers : call[c].repo = r

\* A handler begins.  One that opens or closes a repository, and that meets no
\* other, puts right what others that met left.
Start(c, r, step, found) ==
    /\ call[c] = Idle
    /\ calls < MaxCalls
    /\ calls' = calls + 1
    /\ call' = [call EXCEPT ![c] = [at |-> step, repo |-> r, found |-> found]]
    /\ crossed' = [crossed EXCEPT ![r] = Busy(r) \/ (@ /\ step = "check")]

\* locate, outside the mutex: git answers where there is a repository.
Locate(c, r) ==
    /\ inode[r] # 0
    /\ Start(c, r, "open", 0)
    /\ UNCHANGED <<onDisk, registry, beside>>

\* A new entry, unless the directory went away since it was located.
Pin(c, r, held, known) ==
    IF inode[r] = 0
    THEN /\ byID' = [byID EXCEPT ![r] = 0] /\ order' = known /\ pinned' = held
         /\ Finish(c)
    ELSE /\ byID' = [byID EXCEPT ![r] = inode[r]]
         /\ order' = Append(known, r)
         /\ pinned' = [held EXCEPT ![r] = @ + 1]
         /\ Proceed(c, "watch")

\* The entry of a directory that was replaced is forgotten, then released: a
\* descriptor that refuses to close is closed all the same, and Open fails.
Open(c) ==
    /\ call[c].at = "open"
    /\ LET r == call[c].repo
       IN \/ byID[r] = 0 /\ Pin(c, r, pinned, order)
          \/ byID[r] # 0 /\ SameDirectory(r, byID[r]) /\ Proceed(c, "watch") /\ UNCHANGED registry
          \/ /\ byID[r] # 0
             /\ ~SameDirectory(r, byID[r])
             /\ \/ Pin(c, r, Released(r), Without(r))
                \/ /\ byID' = [byID EXCEPT ![r] = 0]
                   /\ order' = Without(r)
                   /\ pinned' = Released(r)
                   /\ Finish(c)
    /\ UNCHANGED <<onDisk, beside, crossed, calls>>

\* handleCloseRepo: whatever Close answers, everything else is forgotten too.
Close(c, r) ==
    /\ Start(c, r, "forget deletion", 0)
    /\ IF byID[r] = 0 THEN UNCHANGED registry
       ELSE /\ byID' = [byID EXCEPT ![r] = 0]
            /\ order' = Without(r)
            /\ pinned' = Released(r)
    /\ UNCHANGED <<onDisk, beside>>

-----------------------------------------------------------------------------
(* What handleOpenRepo and handleCloseRepo do next. *)

\* Watch, which drops the watch there was before it takes the new one.
Watch(c) ==
    /\ call[c].at = "watch"
    /\ LET r == call[c].repo
       IN \/ /\ inode[r] # 0
             /\ watched' = [watched EXCEPT ![r] = inode[r]]
             /\ Proceed(c, "clear")
          \/ watched' = [watched EXCEPT ![r] = 0] /\ Proceed(c, "warn")
    /\ UNCHANGED <<onDisk, registry, reason, lostBranch, crossed, calls>>

WarnMutant(c) ==  \* the failure goes to the journal alone
    /\ call[c].at = "warn"
    /\ Finish(c)
    /\ UNCHANGED <<onDisk, registry, beside, crossed, calls>>

Warn(c) ==
    /\ call[c].at = "warn"
    /\ reason' = [reason EXCEPT ![call[c].repo] = TRUE]
    /\ Finish(c)
    /\ UNCHANGED <<onDisk, registry, watched, lostBranch, crossed, calls>>

\* An older failure is cleared.
Clear(c) ==
    /\ call[c].at = "clear"
    /\ reason' = [reason EXCEPT ![call[c].repo] = FALSE]
    /\ Finish(c)
    /\ UNCHANGED <<onDisk, registry, watched, lostBranch, crossed, calls>>

ForgetDeletionMutant(c) ==  \* kept for when the repository comes back
    /\ call[c].at = "forget deletion"
    /\ Proceed(c, "forget warning")
    /\ UNCHANGED <<onDisk, registry, beside, crossed, calls>>

ForgetDeletion(c) ==
    /\ call[c].at = "forget deletion"
    /\ lostBranch' = [lostBranch EXCEPT ![call[c].repo] = 0]
    /\ Proceed(c, "forget warning")
    /\ UNCHANGED <<onDisk, registry, watched, reason, crossed, calls>>

ForgetWarning(c) ==
    /\ call[c].at = "forget warning"
    /\ reason' = [reason EXCEPT ![call[c].repo] = FALSE]
    /\ Proceed(c, "forget watch")
    /\ UNCHANGED <<onDisk, registry, watched, lostBranch, crossed, calls>>

ForgetWatch(c) ==
    /\ call[c].at = "forget watch"
    /\ watched' = [watched EXCEPT ![call[c].repo] = 0]
    /\ Finish(c)
    /\ UNCHANGED <<onDisk, registry, reason, lostBranch, crossed, calls>>

-----------------------------------------------------------------------------
(* handleDeleteBranch, for every request that names an open repository. *)

\* Get takes the entry under the mutex ...
Find(c, r) ==
    /\ byID[r] # 0
    /\ Start(c, r, "check", byID[r])
    /\ UNCHANGED <<onDisk, registry, beside>>

\* ... and compares the directory outside it.
Check(c) ==
    /\ call[c].at = "check"
    /\ IF SameDirectory(call[c].repo, call[c].found) THEN Proceed(c, "serve") ELSE Finish(c)
    /\ UNCHANGED <<onDisk, registry, beside, crossed, calls>>

\* git deletes the branch and the daemon remembers it, or git refuses.
Serve(c) ==
    /\ call[c].at = "serve"
    /\ LET r == call[c].repo
       IN \/ inode[r] # 0 /\ lostBranch' = [lostBranch EXCEPT ![r] = inode[r]]
          \/ UNCHANGED lostBranch
    /\ Finish(c)
    /\ UNCHANGED <<onDisk, registry, watched, reason, crossed, calls>>

-----------------------------------------------------------------------------
Handler(c) ==
    \/ Open(c) \/ Watch(c) \/ Warn(c) \/ Clear(c)
    \/ ForgetDeletion(c) \/ ForgetWarning(c) \/ ForgetWatch(c)
    \/ Check(c) \/ Serve(c)

RegistryNext ==
    \/ \E r \in Repos : Make(r) \/ Remove(r)
    \/ \E c \in Callers : Handler(c) \/ \E r \in Repos : Locate(c, r) \/ Close(c, r) \/ Find(c, r)

RegistrySpec == RegistryInit /\ [][RegistryNext]_registryVars

-----------------------------------------------------------------------------
Steps == {"idle", "open", "watch", "warn", "clear", "forget deletion", "forget warning",
          "forget watch", "check", "serve"}

(* The types of the state. *)
RegistryTypeOK ==
    /\ inode \in [Repos -> 0..inodes] /\ inodes \in 0..MaxInodes
    /\ byID \in [Repos -> 0..inodes]
    /\ order \in Seq(Repos)
    /\ pinned \in [Repos -> Nat]
    /\ watched \in [Repos -> 0..inodes]
    /\ reason \in [Repos -> BOOLEAN]
    /\ lostBranch \in [Repos -> 0..inodes]
    /\ call \in [Callers -> [at : Steps, repo : Repos \cup {NoRepo}, found : 0..inodes]]
    /\ crossed \in [Repos -> BOOLEAN]
    /\ calls \in 0..MaxCalls

(***************************************************************************)
(* "The count follows what is open" (pin_unix.go:24-25): one descriptor    *)
(* for each entry and none besides, whatever was replaced on disk, closed  *)
(* twice, or refused to close.                                             *)
(***************************************************************************)
DescriptorsFollowEntries ==
    \A r \in Repos : pinned[r] = IF byID[r] = 0 THEN 0 ELSE 1

(***************************************************************************)
(* The list names every open repository once and nothing else, so List     *)
(* never hands out an entry that is gone.                                  *)
(***************************************************************************)
ListNamesTheOpen ==
    \A r \in Repos :
        Cardinality({i \in DOMAIN order : order[i] = r}) = IF byID[r] = 0 THEN 0 ELSE 1

AtRest == \A c \in Callers : call[c] = Idle

(***************************************************************************)
(* A repository that is open, and still the one that was opened, is        *)
(* watched, or the interface says it is not, unless two handlers of it met *)
(* and nobody has opened it since.                                         *)
(***************************************************************************)
OpenIsWatchedOrSaysSo ==
    AtRest => \A r \in Repos :
        byID[r] # 0 /\ SameDirectory(r, byID[r]) /\ ~crossed[r]
            => watched[r] = byID[r] \/ reason[r]

(***************************************************************************)
(* What is open is whole: its entry, its descriptor, its place in the list *)
(* and its watch.                                                          *)
(***************************************************************************)
OpenRepositoriesAreWhole ==
    RegistryTypeOK /\ DescriptorsFollowEntries /\ ListNamesTheOpen /\ OpenIsWatchedOrSaysSo

(***************************************************************************)
(* A close that is over, and met no other handler of its repository, has   *)
(* left nothing of it behind: neither entry nor watch, warning or deletion.*)
(***************************************************************************)
CloseLeavesNothing ==
    [][\A c \in Callers : call[c].at = "forget watch" /\ call'[c].at = "idle" =>
          LET r == call[c].repo
          IN crossed[r] \/ (byID'[r] = 0 /\ watched'[r] = 0 /\ ~reason'[r]
                            /\ lostBranch'[r] = 0)]_registryVars

(***************************************************************************)
(* What Get found is what a request is served from: "the identifier        *)
(* promised one repository and would now serve another" (registry.go:590)  *)
(* is refused, for a directory replaced at any moment before the check.    *)
(***************************************************************************)
ServesWhatWasOpened ==
    [][\A c \in Callers : call[c].at = "check" /\ call'[c].at = "serve"
          => inode[call[c].repo] = call[c].found]_registryVars

(***************************************************************************)
(* Both ends of the life of an identifier: it serves what it was given to, *)
(* and leaves nothing.                                                     *)
(***************************************************************************)
IdentifiersKeepTheirPromise == ServesWhatWasOpened /\ CloseLeavesNothing
=============================================================================
