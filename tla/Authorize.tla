------------------------------- MODULE Authorize -------------------------------
(***************************************************************************)
(* May this key log in to this account? (subprocess_auth.c, getln.c)       *)
(*                                                                         *)
(* The server forks; the child becomes the user, goes to ~/.ssh and looks  *)
(* for the key in authorized_keys, after checking the file it holds open   *)
(* and every directory above it. The name may be a symbolic link, and      *)
(* other processes may move what the names mean between any two of the     *)
(* child's system calls. The child's answer is its exit status.            *)
(***************************************************************************)
EXTENDS Account, Integers, Sequences

CONSTANTS
  Files,    \* inode -> [reg, tight, owner, lines]: regular, writable by the
            \* owner only, owner's uid, and what getln reads, line by line;
            \* the last "line" is what follows the last newline
  Above,    \* real path -> the directories it goes through
  Layouts,  \* which inode each path may name at first
  Loose     \* sets of directories that others may write or own

(* A file has at least what follows its last newline. *)
ASSUME AuthorizeAssumption ==
  /\ \A i \in DOMAIN Files : Files[i].lines \in Seq(STRING) /\ Files[i].lines # <<>>
  /\ Layouts \subseteq [DOMAIN Above -> DOMAIN Files]

VARIABLES
  auth,      \* the server: "idle", "waiting", "granted", "refused"
  server,    \* the server's process
  passwd,    \* what getpwnam finds for the account
  prober,    \* the child's process
  apc,       \* where the child is; "exited" and "killed" when it ended
  status,    \* what WEXITSTATUS reads of it: 0 also when it was killed
  fd,        \* the inode it has open
  path,      \* what realpath returned
  at,        \* real path -> inode now
  target,    \* the real path "authorized_keys" leads to now
  loose,     \* the directories others may write
  line,      \* lines read so far
  failed     \* some call failed that need not have

authVars == <<auth, server, passwd, prober, apc, status, fd, path, at, target,
              loose, line, failed>>

AuthInit ==
  /\ auth = "idle" /\ apc = "none" /\ status = 0
  /\ server \in Processes /\ prober = server
  /\ passwd \in getpwnam
  /\ fd = "none" /\ path = "none" /\ line = 0
  /\ at \in Layouts
  /\ target \in DOMAIN Above
  /\ loose \in Loose
  /\ failed = FALSE

-----------------------------------------------------------------------------
(* The child. Every failure is global_die(111); failed remembers whether a
   system call failed by chance rather than by the state of the files. *)
Goto(l) == apc' = l /\ UNCHANGED status

global_die(code) == apc' = "exited" /\ status' = code

Refused(byChance) ==
  /\ global_die(111)
  /\ failed' = (failed \/ byChance)
  /\ UNCHANGED <<fd, path, line>>

(* getpwnam, dropuidgid and the two chdirs. *)
subprocess_auth_child ==
  /\ apc = "start"
  /\ \/ \E pw \in passwd : \E p \in dropuidgid(prober, pw) :
          prober' = p /\ Goto("open") /\ UNCHANGED <<fd, path, line, failed>>
     \/ Refused(TRUE) /\ UNCHANGED prober
  /\ UNCHANGED <<auth, server, passwd, at, target, loose>>

Owned(owner) == owner \in {prober.euid, Root}

SafeFile(i) == Files[i].reg /\ Files[i].tight /\ Owned(Files[i].owner)

check(d) == d \notin loose

SafePath(p) == \A d \in Above[p] : check(d)

(* getln: 1 for a line, 0 for what is left at the end of the file, -1 for a
   line that does not fit the buffer. *)
getln(lines, k) == IF lines[k] = "long" THEN -1 ELSE IF k = Len(lines) THEN 0 ELSE 1

findnameandkey(text) == text = "key"

open_authorized_keys ==
  /\ apc = "open"
  /\ \/ fd' = at[target] /\ Goto("fstat") /\ UNCHANGED <<path, line, failed>>
     \/ Refused(TRUE)
  /\ UNCHANGED <<auth, server, passwd, prober, at, target, loose>>

(* subprocess_auth_checkpath_: fstat of the descriptor, *)
checkpath_fstat ==
  /\ apc = "fstat"
  /\ \/ SafeFile(fd) /\ Goto("realpath") /\ UNCHANGED <<fd, path, line, failed>>
     \/ Refused(SafeFile(fd))
  /\ UNCHANGED <<auth, server, passwd, prober, at, target, loose>>

(* then the name's real path, *)
checkpath_realpath ==
  /\ apc = "realpath"
  /\ \/ path' = target /\ Goto("stat") /\ UNCHANGED <<fd, line, failed>>
     \/ Refused(TRUE)
  /\ UNCHANGED <<auth, server, passwd, prober, at, target, loose>>

(* which must still lead to the inode that is open, *)
checkpath_stat_slip ==
  /\ apc = "stat"
  /\ Goto("check") /\ UNCHANGED <<fd, path, line, failed>>
  /\ UNCHANGED <<auth, server, passwd, prober, at, target, loose>>

checkpath_stat ==
  /\ apc = "stat"
  /\ \/ at[path] = fd /\ Goto("check") /\ UNCHANGED <<fd, path, line, failed>>
     \/ Refused(at[path] = fd)
  /\ UNCHANGED <<auth, server, passwd, prober, at, target, loose>>

(* and check() of every directory above it, the root directory included. *)
checkpath_check ==
  /\ apc = "check"
  /\ \/ SafePath(path) /\ Goto("getln") /\ UNCHANGED <<fd, path, line, failed>>
     \/ Refused(SafePath(path))
  /\ UNCHANGED <<auth, server, passwd, prober, at, target, loose>>

(* One line: a line that does not fit the buffer, like a read error, ends
   the search; the text after the last newline is a line as well. *)
authorizedkeys_getln ==
  LET lines == Files[fd].lines IN
  /\ apc = "getln"
  /\ \/ Refused(TRUE)
     \/ /\ line' = line + 1
        /\ UNCHANGED <<fd, path, failed>>
        /\ CASE getln(lines, line') = -1 -> global_die(111)
             [] findnameandkey(lines[line']) -> global_die(0)
             [] OTHER -> IF getln(lines, line') > 0 THEN Goto("getln") ELSE global_die(111)
  /\ UNCHANGED <<auth, server, passwd, prober, at, target, loose>>

Prober ==
  \/ subprocess_auth_child
  \/ open_authorized_keys
  \/ checkpath_fstat
  \/ checkpath_realpath
  \/ checkpath_stat
  \/ checkpath_check
  \/ authorizedkeys_getln

(* The child ends without an exit status. *)
ProberKilled ==
  /\ apc \notin {"none", "exited", "killed"}
  /\ apc' = "killed" /\ failed' = TRUE
  /\ UNCHANGED <<auth, server, passwd, prober, status, fd, path, at, target, loose, line>>

-----------------------------------------------------------------------------
(* The server's side: fork, then waitpid until it is not interrupted. *)
subprocess_auth ==
  /\ auth = "idle"
  /\ \/ auth' = "waiting" /\ apc' = "start" /\ prober' = server /\ UNCHANGED failed
     \/ auth' = "refused" /\ failed' = TRUE /\ UNCHANGED <<apc, prober>>
  /\ UNCHANGED <<server, passwd, status, fd, path, at, target, loose, line>>

subprocess_auth_waitpid ==
  /\ auth = "waiting"
  /\ apc \in {"exited", "killed"}
  /\ auth' = IF apc = "exited" /\ status = 0 THEN "granted" ELSE "refused"
  /\ UNCHANGED <<server, passwd, prober, apc, status, fd, path, at, target, loose, line, failed>>

(* Another user: renames and links in the directories left open to it. It
   cannot touch the others, and cannot give a file to another owner. *)
Meddle ==
  /\ auth = "waiting"
  /\ \/ \E p \in DOMAIN Above, i \in DOMAIN Files :
          /\ ~SafePath(p)
          /\ at' = [at EXCEPT ![p] = i] /\ UNCHANGED target
     \/ \E p \in DOMAIN Above :
          /\ ~SafePath(target)
          /\ target' = p /\ UNCHANGED at
  /\ UNCHANGED <<auth, server, passwd, prober, apc, status, fd, path, loose, line, failed>>

AuthNext ==
  \/ subprocess_auth
  \/ Prober
  \/ ProberKilled
  \/ subprocess_auth_waitpid
  \/ Meddle

-----------------------------------------------------------------------------
(* The file lists the key on a line the reader reaches. *)
Lists(i) ==
  \E k \in DOMAIN Files[i].lines :
    /\ Files[i].lines[k] = "key"
    /\ \A j \in 1..(k - 1) : Files[i].lines[j] # "long"

(* A key is accepted only out of a file its owner alone may write, which is
   at that moment what a path means that nobody else can redirect, read by a
   process with the account's rights (subprocess_auth.c:92, :112, :164). *)
GrantIsListed ==
  auth = "granted" =>
    /\ SafeFile(fd) /\ Files[fd].owner \in {Owner.uid, Root}
    /\ SafePath(path) /\ at[path] = fd
    /\ Lists(fd)
    /\ \E pw \in passwd : ActsFor(prober, pw, server)

(* And if nothing failed and nobody could interfere, a key that is listed is
   accepted, wherever the line stands and whatever ends it. *)
ListedIsGranted ==
  /\ auth = "refused" /\ ~failed
  /\ \A p \in DOMAIN Above : SafePath(p)
  => ~(Lists(at[target]) /\ SafeFile(at[target]))

(* subprocess_auth grants a key exactly when it may: the two directions, one
   against files that move while they are checked, one against a reader that
   overlooks a line. *)
KeyDecision == GrantIsListed /\ ListedIsGranted

(* The server gets an answer (the child reads a file and ends). *)
AuthDecides == (auth = "waiting") ~> (auth \in {"granted", "refused"})
=============================================================================
