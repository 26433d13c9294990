------------------------------- MODULE Account -------------------------------
(***************************************************************************)
(* Accounts, processes and how a process becomes a user (dropuidgid.c).    *)
(* An account is what getpwnam returns; a process carries the identities   *)
(* the kernel keeps for it. The kernel is external: a call that changes an *)
(* identity may be refused, and may also report success and change         *)
(* nothing, which is what the code's own re-reads are there to notice.     *)
(***************************************************************************)
EXTENDS Naturals, FiniteSets

CONSTANTS
  Root,       \* the uid of the superuser
  Service     \* the unprivileged uid a server may also be started under

(* The passwd entry of the account the client logs in to. *)
Owner == [uid |-> "uid", gid |-> "gid", groups |-> {"gid", "extra"},
          home |-> "home", name |-> "name", shell |-> "shell"]

(* What getpwnam may return: the entry, one without a shell, or nothing. *)
getpwnam == {{Owner}, {[Owner EXCEPT !.shell = ""]}, {}}

(* The server's process, as the superuser, as another user, or as the
   user who logs in. *)
Processes ==
  {[euid |-> u, uid |-> u, gid |-> "any", groups |-> {"any"}] :
     u \in {Root, Service, Owner.uid}}

setgid(p, g) == {p, [p EXCEPT !.gid = g]}

setuid(p, u) ==
  IF p.euid = Root THEN {p, [p EXCEPT !.uid = u, !.euid = u]} ELSE {}

-----------------------------------------------------------------------------
(* dropuidgid: the processes that may come out of it; a failure returns 0,
   so it contributes none. *)
InGroup(p, pw) ==
  IF p.euid # Root THEN {p}
  ELSE {[q EXCEPT !.groups = pw.groups] :
          q \in {r \in setgid(p, pw.gid) : r.gid = pw.gid}}

dropuidgid(p, pw) ==
  UNION {IF q.euid = pw.uid THEN {q}
         ELSE {r \in setuid(q, pw.uid) : r.uid = pw.uid} :
           q \in InGroup(p, pw)}

(* The process acts for the account, with no more rights than it had or the
   account has. *)
ActsFor(p, pw, server) ==
  /\ p.uid = pw.uid
  /\ p.euid = pw.uid
  /\ server.euid = Root => p.gid = pw.gid /\ p.groups = pw.groups
=============================================================================
