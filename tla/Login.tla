-------------------------------- MODULE Login --------------------------------
(***************************************************************************)
(* From an accepted key to a running shell: what channel_open,             *)
(* channel_openterminal, channel_env, channel_exec, channel_close and      *)
(* channel_waitnohang (channel.c) do to the child's environment            *)
(* (newenv.c), its identity (channel_drop.c, dropuidgid.c), its terminal   *)
(* (channel_forkpty.c) and the system's login records (logsys.c).          *)
(*                                                                         *)
(* The calls come in any order the channel accepts. packet_channel_request *)
(* refuses every "env" request today; channel_env is modelled as the       *)
(* channel offers it.                                                      *)
(***************************************************************************)
EXTENDS Authorize, NewEnv

CONSTANTS
  Paths,     \* what the server may have inherited as PATH: set of sets
  Terms,     \* the values a client may ask for as TERM
  EnvNames   \* the variables a client may send

(* A variable has a name. *)
ASSUME LoginAssumption == "" \notin EnvNames

VARIABLES
  n,        \* the server's table
  chan,     \* the channel: "none", "open", "forking", "running", "reaped",
            \* "closed", "dead" once the server is gone
  tty,      \* a terminal was opened for the channel
  ready,    \* the forkpty pipe: bytes written
  child,    \* the child's process
  cpc,      \* where the child is
  cn,       \* its copy of the table
  seen,     \* the environment and directory its shell was started with
  record,   \* the terminal's entries in utmp and utmpx
  ttyowner  \* who owns the terminal device

loginVars == <<n, chan, tty, ready, child, cpc, cn, seen, record, ttyowner>>
vars == <<authVars, loginVars>>

Databases == {"utmp", "utmpx"}
NoShell == [env |-> {}, dir |-> "none"]

LoginInit ==
  /\ n = newenv_init
  /\ chan = "none" /\ tty = FALSE /\ ready = 0
  /\ child = server /\ cpc = "none" /\ cn = newenv_init /\ seen = NoShell
  /\ record = [d \in Databases |-> "none"]
  /\ ttyowner = "system"

-----------------------------------------------------------------------------
(* A variable after the ones before it, up to the first that fails. (The
   set of one element makes TLC evaluate the table so far once.) *)
Then(before, s, v) ==
  CHOOSE r \in {IF b.ok THEN newenv_env(b.env, s, v) ELSE b : b \in {before}} : TRUE

(* channel_open: the channel counts as open even if the table is full. *)
channel_open ==
  /\ chan = "none" /\ auth = "granted"
  /\ \E inherited \in Paths : \E p \in {newenv_copyenv(n, "PATH", inherited)} :
     \E q \in {IF p.ok THEN p ELSE newenv_env(p.env, "PATH", "/bin:/usr/bin")} :
       n' = Then(Then(q, "SSH_CONNECTION", "ip"), "MAIL", "box").env
  /\ chan' = "open"
  /\ UNCHANGED <<tty, ready, child, cpc, cn, seen, record, ttyowner>>

(* channel_openterminal: openpty may fail, and so may TERM. *)
channel_openterminal ==
  /\ chan = "open" /\ ~tty
  /\ \E t \in Terms :
       LET r == newenv_env(n, "TERM", t) IN n' = r.env /\ tty' = r.ok
  /\ UNCHANGED <<chan, ready, child, cpc, cn, seen, record, ttyowner>>

channel_env ==
  /\ chan = "open"
  /\ \E s \in EnvNames, v \in Terms : n' = newenv_lowenv(n, s, v).env
  /\ UNCHANGED <<chan, tty, ready, child, cpc, cn, seen, record, ttyowner>>

(* channel_exec, the server's half: a fork that fails leaves the channel with
   no child; with a terminal the server first waits for the child. *)
channel_exec ==
  /\ chan = "open"
  /\ \/ /\ chan' = "closed"
        /\ UNCHANGED <<n, ready, child, cpc, cn>>
     \/ /\ child' = server /\ cn' = n
        /\ cpc' = IF tty THEN "login_tty" ELSE "login"
        /\ chan' = IF tty THEN "forking" ELSE "running"
        /\ n' = IF tty THEN n ELSE newenv_purge
        /\ UNCHANGED ready
  /\ UNCHANGED <<tty, seen, record, ttyowner>>

(* The server holds no write end of the pipe, so read returns when the child
   writes or ends. *)
forkpty_wait_slip ==
  /\ chan = "forking"
  /\ ready > 0
  /\ chan' = "running" /\ n' = newenv_purge
  /\ UNCHANGED <<tty, ready, child, cpc, cn, seen, record, ttyowner>>

forkpty_wait ==
  /\ chan = "forking"
  /\ ready > 0 \/ cpc = "exited"
  /\ chan' = "running" /\ n' = newenv_purge
  /\ UNCHANGED <<tty, ready, child, cpc, cn, seen, record, ttyowner>>

(* The child: the terminal becomes its own, *)
forkpty_child ==
  /\ cpc = "login_tty"
  /\ \/ cpc' = "login" /\ ready' = 1
     \/ cpc' = "exited" /\ UNCHANGED ready
  /\ UNCHANGED <<n, chan, tty, child, cn, seen, record, ttyowner>>

(* logsys_login and logsys_logout: nothing without a terminal. *)
logsys(type) == [d \in Databases |-> type]

logsys_login ==
  /\ cpc = "login"
  /\ cpc' = "droppriv"
  /\ record' = IF tty THEN logsys("USER_PROCESS") ELSE record
  /\ UNCHANGED <<n, chan, tty, ready, child, cn, seen, ttyowner>>

(* channel_droppriv, then execve of the account's shell, or _exit(111). *)
AccountVars_slip(t, pw) ==
  Then(Then(Then(Then(t, "HOME", pw.home), "USER", pw.name), "LOGNAME", pw.name),
       "SHELL", IF pw.shell = "" THEN "/bin/sh" ELSE pw.shell)

AccountVars(t, pw) ==
  Then(Then(Then(Then(Then(t, "HOME", pw.home), "USER", pw.name), "LOGNAME", pw.name),
            "LOGIN", pw.name), "SHELL", IF pw.shell = "" THEN "/bin/sh" ELSE pw.shell)

channel_droppriv(pw) ==
  \E t \in {IF tty THEN newenv_env(cn, "SSH_TTY", "pts") ELSE [ok |-> TRUE, env |-> cn]} :
  \E r \in {AccountVars(t, pw)} :
    /\ r.ok
    /\ ttyowner' = IF tty THEN pw.uid ELSE ttyowner
    /\ child' \in dropuidgid(child, pw)
    /\ cn' = r.env
    /\ seen' = [env |-> newenv_exec(r.env), dir |-> pw.home]
    /\ cpc' = "shell"

(* A step of it fails: the terminal may have been given away by then. *)
droppriv_fails ==
  /\ cpc' = "exited"
  /\ \/ UNCHANGED ttyowner
     \/ tty /\ \E pw \in passwd : ttyowner' = pw.uid
  /\ UNCHANGED <<child, cn, seen>>

exec_child ==
  /\ cpc = "droppriv"
  /\ (\E pw \in passwd : channel_droppriv(pw)) \/ droppriv_fails
  /\ UNCHANGED <<n, chan, tty, ready, record>>

ChildEnds ==
  /\ cpc = "shell"
  /\ cpc' = "exited"
  /\ UNCHANGED <<n, chan, tty, ready, child, cn, seen, record, ttyowner>>

(* channel_waitnohang *)
channel_waitnohang ==
  /\ chan = "running" /\ cpc = "exited"
  /\ record' = IF tty THEN logsys("DEAD_PROCESS") ELSE record
  /\ chan' = "reaped" /\ cpc' = "none"
  /\ UNCHANGED <<n, tty, ready, child, cn, seen, ttyowner>>

(* channel_close before a child was started. *)
channel_close ==
  /\ chan = "open"
  /\ chan' = "closed" /\ tty' = FALSE /\ n' = newenv_purge
  /\ UNCHANGED <<ready, child, cpc, cn, seen, record, ttyowner>>

(* global_die: the server ends at any point, the child goes on by itself. *)
ServerDies ==
  /\ chan \notin {"none", "dead"}
  /\ chan' = "dead" /\ n' = newenv_purge
  /\ UNCHANGED <<tty, ready, child, cpc, cn, seen, record, ttyowner>>

Serve == forkpty_wait \/ channel_waitnohang
Shell == forkpty_child \/ logsys_login \/ exec_child \/ ChildEnds

LoginNext ==
  \/ channel_open
  \/ channel_openterminal
  \/ channel_env
  \/ channel_exec
  \/ channel_close
  \/ Serve
  \/ Shell
  \/ ServerDies

Init == AuthInit /\ LoginInit

Next ==
  \/ AuthNext /\ UNCHANGED loginVars
  \/ LoginNext /\ UNCHANGED authVars

(* The kernel runs the processes; which requests come, and when a shell
   ends, is not up to the server. *)
Spec ==
  /\ Init /\ [][Next]_vars
  /\ WF_vars(subprocess_auth_waitpid /\ UNCHANGED loginVars)
  /\ WF_vars(Prober /\ UNCHANGED loginVars)
  /\ WF_vars(Serve /\ UNCHANGED authVars)
  /\ WF_vars((forkpty_child \/ logsys_login \/ exec_child) /\ UNCHANGED authVars)

-----------------------------------------------------------------------------
(* The type of the state. The tables' type is more than their fields': the
   array ends with a NULL within its bounds and no variable is listed twice,
   whatever was added, replaced and refused (newenv.c:69). *)
LoginTypeOK ==
  /\ auth \in {"idle", "waiting", "granted", "refused"}
  /\ chan \in {"none", "open", "forking", "running", "reaped", "closed", "dead"}
  /\ tty \in BOOLEAN /\ ready \in 0..1
  /\ cpc \in {"none", "login_tty", "login", "droppriv", "shell", "exited"}
  /\ record \in [Databases -> {"none", "USER_PROCESS", "DEAD_PROCESS"}]
  /\ n = newenv_purge \/ TableSound(n)
  /\ TableSound(cn)

(* newenv.c:71: a call adds or replaces the one variable it names; one that
   is refused may lose that variable, and touches no other. *)
OnlyNamedVariable ==
  [][n' # n /\ n' # newenv_purge /\ chan = "open" =>
       \E s \in EnvNames \cup {"TERM"} :
         LET others(t) == {x \in newenv_exec(t) : x.name # s}
         IN others(n') = others(n)]_vars

(* The program that is started is the account's: its identity and groups,
   its home directory, and the account's variables with the account's
   values, whatever the client had set before (channel_drop.c:14). *)
ShellIsAccounts ==
  cpc = "shell" =>
    \E pw \in passwd :
      /\ ActsFor(child, pw, server)
      /\ seen.dir = pw.home
      /\ tty => ttyowner = pw.uid
      /\ \A k \in {"HOME", "USER", "LOGNAME", "LOGIN", "SHELL"} :
           {x.val : x \in {y \in seen.env : y.name = k}} =
             {CASE k = "HOME" -> pw.home
                [] k = "SHELL" -> IF pw.shell = "" THEN "/bin/sh" ELSE pw.shell
                [] OTHER -> pw.name}

(* A shell runs only for an accepted key, and only with the rights under
   which the key was looked for. *)
ShellNeedsKey ==
  cpc = "shell" => auth = "granted" /\ child.uid = prober.uid /\ child.euid = prober.euid

(* Once the child was started or the server is gone, the server's memory
   holds no variable, and nothing is added again (newenv.c:33). *)
ServerForgets ==
  chan \in {"running", "reaped", "dead"} => n = newenv_purge

(* While the server lives, a terminal is on record as in use only as long as
   its process has not been reaped (channel.c:489). *)
RecordHasProcess ==
  \A d \in Databases :
    record[d] = "USER_PROCESS" /\ chan # "dead" => cpc # "none" /\ tty

(* channel_forkpty returns, also when the child ends before it has the
   terminal (channel_forkpty.c:166). *)
ForkReturns == (chan = "forking") ~> (chan # "forking")

(* From an accepted key to the account's program, and nothing of one login
   is left behind in the server or in the login records. *)
ShellSafe == ShellIsAccounts /\ ShellNeedsKey /\ ServerForgets /\ RecordHasProcess

(* Neither of the two places where the server waits for a child, waitpid in
   subprocess_auth and read in channel_forkpty, waits for ever. *)
Returns == AuthDecides /\ ForkReturns
=============================================================================
