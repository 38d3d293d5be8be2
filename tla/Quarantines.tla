---------------------------- MODULE Quarantines ----------------------------
(***************************************************************************)
(* The quarantines of cookie accounts (needs login) and the file that      *)
(* keeps them over restarts of the helper.  A thread changes the map under *)
(* the lock, takes a snapshot under it, and writes it without: opens the   *)
(* temporary file, whose name all threads share, writes, and renames it.   *)
(* A file is an inode; a thread that has one open writes to it whatever    *)
(* its name has become.                                                    *)
(***************************************************************************)
EXTENDS Absent, Naturals, FiniteSets

CONSTANTS
  Accounts,
  Writers, \* threads that quarantine or clear accounts
  Inodes

(* Inodes enough for the two names and what the writers have open.         *)
ASSUME QuarantineAssumption ==
  /\ None \notin Accounts \cup Inodes
  /\ IsFiniteSet(Writers) /\ IsFiniteSet(Inodes)
  /\ Cardinality(Inodes) >= Cardinality(Writers) + 2

VARIABLES
  barred,     \* account_quarantines
  before,     \* the map before the last change
  writer,     \* writer[w]: what a thread is doing
  content,    \* content[i]: the accounts in an inode, or Torn
  stateFile,  \* the inode named COOKIE_STATE_FILE, or None
  tmpFile,    \* the inode named COOKIE_STATE_FILE.tmp.<pid>, or None
  overlapped  \* two threads have persisted at once, and none alone since

quarantineVars == <<barred, before, writer, content, stateFile, tmpFile, overlapped>>

(* An inode that does not parse: empty, or a short text over a long one.   *)
Torn == {None}

Resting == [phase |-> "idle", alone |-> TRUE, snapshot |-> {}, handle |-> None]

Persisting(w) == writer[w].phase # "idle"

QuarantineInit ==
  /\ barred = {} /\ before = {}
  /\ writer = [w \in Writers |-> Resting]
  /\ content = [i \in Inodes |-> Torn]
  /\ stateFile = None /\ tmpFile = None
  /\ overlapped = FALSE

---------------------------------------------------------------------------
(* A change of the map, whose writer must persist it.                      *)
Change(w, accounts) ==
  /\ ~Persisting(w)
  /\ barred' = accounts
  /\ before' = barred
  /\ LET alone == \A v \in Writers : ~Persisting(v)
     IN  /\ overlapped' = (overlapped \/ ~alone)
         /\ writer' = [v \in Writers |->
              [writer[v] EXCEPT !.phase = IF v = w THEN "changed" ELSE @, !.alone = alone]]
  /\ UNCHANGED <<content, stateFile, tmpFile>>

(* quarantine_account saves also an account that is quarantined already,   *)
(* clear_account_quarantine only one that is.                              *)
Quarantine(w, a) == Change(w, barred \cup {a})
Clear(w, a) == a \in barred /\ Change(w, barred \ {a})

Step(w, phase, record) ==
  /\ writer[w].phase = phase
  /\ writer' = [writer EXCEPT ![w] = record]
  /\ UNCHANGED <<barred, before>>

Snapshot(w) ==
  /\ Step(w, "changed", [writer[w] EXCEPT !.phase = "open", !.snapshot = barred])
  /\ UNCHANGED <<content, stateFile, tmpFile, overlapped>>

InUse == {stateFile, tmpFile} \cup {writer[w].handle : w \in Writers}

(* An inode without a name and a handle is gone.                           *)
DropUnused == content' = [i \in Inodes |-> IF i \in InUse' THEN content[i] ELSE Torn]

NewInode == CHOOSE i \in Inodes : i \notin InUse

(* Mutant: the state file itself is opened for writing.                    *)
OpenInPlace(w) ==
  LET i == IF stateFile # None THEN stateFile ELSE NewInode IN
    /\ Step(w, "open", [writer[w] EXCEPT !.phase = "write", !.handle = i])
    /\ content' = [content EXCEPT ![i] = Torn]
    /\ stateFile' = i
    /\ UNCHANGED <<tmpFile, overlapped>>

(* open(tmp, "w") empties the inode of that name or makes one.             *)
Open(w) ==
  LET i == IF tmpFile # None THEN tmpFile ELSE NewInode IN
    /\ Step(w, "open", [writer[w] EXCEPT !.phase = "write", !.handle = i])
    /\ content' = [content EXCEPT ![i] = Torn]
    /\ tmpFile' = i
    /\ UNCHANGED <<stateFile, overlapped>>

(* The text is written over what another thread has written since: a       *)
(* shorter one leaves the end of a longer one behind it.                   *)
Write(w) ==
  /\ Step(w, "write", [writer[w] EXCEPT !.phase = "rename"])
  /\ LET i == writer[w].handle
         shorter == content[i] # Torn /\ Cardinality(writer[w].snapshot) < Cardinality(content[i])
     IN  content' = [content EXCEPT ![i] = IF shorter THEN Torn ELSE writer[w].snapshot]
  /\ UNCHANGED <<stateFile, tmpFile, overlapped>>

(* os.chmod and os.replace act on the name; if another thread has renamed  *)
(* the file they raise an exception, which ends the persist as well.       *)
Rename(w) ==
  /\ Step(w, "rename", Resting)
  /\ overlapped' = (overlapped /\ ~writer[w].alone)
  /\ IF tmpFile # None
     THEN stateFile' = tmpFile /\ tmpFile' = None
     ELSE UNCHANGED <<stateFile, tmpFile>>
  /\ DropUnused

(* What load_account_quarantines makes of the file.                        *)
Loaded ==
  IF stateFile = None \/ content[stateFile] = Torn THEN {} ELSE content[stateFile]

(* The helper dies and is started again; nothing writes the file before    *)
(* the map is loaded from it.  The temporary file may be found again.      *)
Restart ==
  /\ barred' = Loaded /\ before' = Loaded
  /\ writer' = [w \in Writers |-> Resting]
  /\ tmpFile' \in {tmpFile, None}
  /\ overlapped' = FALSE
  /\ UNCHANGED stateFile
  /\ DropUnused

QuarantineNext ==
  \/ \E w \in Writers :
       \/ \E a \in Accounts : Quarantine(w, a) \/ Clear(w, a)
       \/ Snapshot(w) \/ Open(w) \/ Write(w) \/ Rename(w)
  \/ Restart

QuarantineSpec == QuarantineInit /\ [][QuarantineNext]_quarantineVars

---------------------------------------------------------------------------
QuarantineTypeOK ==
  /\ barred \subseteq Accounts /\ before \subseteq Accounts
  /\ \A w \in Writers :
       /\ writer[w].phase \in {"idle", "changed", "open", "write", "rename"}
       /\ writer[w].snapshot \subseteq Accounts
       /\ writer[w].handle \in Inodes \cup {None}
  /\ content \in [Inodes -> (SUBSET Accounts) \cup {Torn}]
  /\ {stateFile, tmpFile} \subseteq Inodes \cup {None}

(* While no two threads persist at once, the helper may die at any moment: *)
(* the file holds the quarantines before or after the last change, and     *)
(* after it once the persist is over.                                      *)
SavedUnlessOverlapping ==
  ~overlapped =>
    /\ Loaded \in {before, barred}
    /\ (\A w \in Writers : ~Persisting(w)) => Loaded = barred

(* "A needs-login slot stays quarantined until a validated replacement is  *)
(* saved" (handlers/admin_cookies.go): an account leaves the map by        *)
(* clear_account_quarantine, or when the helper dies while a change is     *)
(* still being saved.                                                      *)
StaysQuarantined ==
  [][\A a \in barred \ barred' :
       \E w \in Writers : Clear(w, a) \/ Persisting(w)]_quarantineVars
=============================================================================
