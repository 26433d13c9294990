------------------------------- MODULE Startup -------------------------------
(***************************************************************************)
(* A tinysshd process over time: its options, what it finds out about the  *)
(* connection, the algorithms it will offer, and the one alarm clock that  *)
(* bounds every later phase (main_tinysshd.c:61-262, :380,                 *)
(* connectioninfo.c, channel_subsystem.c). What happens inside a phase is  *)
(* the business of Transport and Session; here a phase takes any time, or  *)
(* fails.                                                                  *)
(***************************************************************************)
EXTENDS Naturals, Sequences, FiniteSets

CONSTANTS
  ShortTime,     \* alarm(60), in ticks of the model's clock
  LongTime,      \* alarm(3600)
  SubsystemMax,  \* CHANNEL_SUBSYSTEM_MAX
  Letters,       \* the option letters tried
  MaxLetters,    \* bound: option letters on the command line
  MaxAge         \* bound: ticks counted before the user is known

ASSUME StartupAssumption ==
  /\ {ShortTime, LongTime} \subseteq Nat \ {0} /\ ShortTime <= LongTime
  /\ {SubsystemMax, MaxLetters, MaxAge} \subseteq Nat

VARIABLES
  pc,        \* "options", "info", "keys", "hello", "kexdh", "auth", "loop", "dead"
  program,   \* the name the binary was started under
  euid,      \* "root" or "user"
  letters,   \* the option letters so far
  verbose, types, logger, command, subsystems,  \* what they set
  noneauth,
  info,      \* localip, localport, remoteip, remoteport: where each is from
  offered,   \* names of the key, kex and cipher algorithms enabled
  authorized,
  alarm,     \* ticks until SIGALRM, 0 when it is not armed
  age,       \* ticks since the hello
  quiet,     \* ticks since bytes last came in, in a key exchange since it began
  sent,      \* output went to the client since the last tick
  why        \* what ended the process

vars == <<pc, program, euid, letters, verbose, types, logger, command,
          subsystems, noneauth, info, offered, authorized, alarm, age, quiet,
          sent, why>>
optVars == <<verbose, types, logger, command, subsystems>>
timeVars == <<alarm, age, quiet, sent>>

Fields == {"localip", "localport", "remoteip", "remoteport"}

Init ==
  /\ pc = "options"
  /\ program \in {"tinysshd", "tinysshnoneauthd"} /\ euid \in {"root", "user"}
  /\ letters = <<>>
  /\ verbose = 1 /\ types = {"new", "pq"} /\ logger = FALSE /\ command = FALSE
  /\ subsystems = <<>> /\ noneauth = FALSE
  /\ info = [f \in Fields |-> "none"]
  /\ offered = {} /\ authorized = FALSE
  /\ alarm = 0 /\ age = 0 /\ quiet = 0 /\ sent = FALSE /\ why = "none"

Die(reason) == pc' = "dead" /\ alarm' = 0 /\ why' = reason

-----------------------------------------------------------------------------
(* One option letter. -x adds a subsystem; one that is no name=command, or
   one too many, like a letter that does not exist, is a usage error. *)
verbosity(c) ==
  CASE c = "q" -> 0
    [] c = "Q" -> 1
    [] c = "v" -> IF verbose + 1 >= 4 THEN 4 ELSE verbose + 1
    [] OTHER -> verbose

cryptotypes(c) ==
  CASE c = "o" -> types \cup {"old"} [] c = "O" -> types \ {"old"}
    [] c = "s" -> types \cup {"new"} [] c = "S" -> types \ {"new"}
    [] c = "p" -> types \cup {"pq"}  [] c = "P" -> types \ {"pq"}
    [] OTHER -> types

channel_subsystem_add ==
  /\ Len(subsystems) < SubsystemMax
  /\ subsystems' = Append(subsystems, Len(letters) + 1)

option ==
  /\ pc = "options" /\ Len(letters) < MaxLetters
  /\ \E c \in Letters :
       /\ letters' = Append(letters, c)
       /\ \/ /\ c \in {"x", "?"}
             /\ Die("usage") /\ UNCHANGED optVars
          \/ /\ c # "?"
             /\ verbose' = verbosity(c) /\ types' = cryptotypes(c)
             /\ logger' = (IF c \in {"l", "L"} THEN c = "l" ELSE logger)
             /\ command' = (command \/ c = "e")
             /\ IF c = "x" THEN channel_subsystem_add ELSE UNCHANGED subsystems
             /\ UNCHANGED <<pc, alarm, why>>
  /\ UNCHANGED <<program, euid, noneauth, info, offered, authorized, age, quiet, sent>>

(* The key directory ends the options (without one: usage), and the command
   line has been read; the server that
   asks for no authentication insists on a fixed command and a plain user. *)
check_noneauth ==
  /\ pc = "options"
  /\ \/ Die("usage") /\ UNCHANGED noneauth
     \/ /\ program = "tinysshnoneauthd" /\ (~command \/ euid = "root")
        /\ Die("fatal") /\ UNCHANGED noneauth
     \/ /\ program = "tinysshnoneauthd" => command /\ euid # "root"
        /\ noneauth' = (program = "tinysshnoneauthd")
        /\ pc' = "info" /\ UNCHANGED <<alarm, why>>
  /\ letters' = <<>>
  /\ UNCHANGED <<program, euid, optVars, info, offered, authorized, age, quiet, sent>>

(* connectioninfo: each source in turn fills the four fields in order and
   may give up in the middle; the words for nothing known come last. *)
Order == <<"localip", "localport", "remoteip", "remoteport">>

Filled(i, from, k) == [f \in Fields |-> IF \E j \in 1..k : Order[j] = f THEN from ELSE i[f]]

(* getsockname or getpeername gives an address and a port at once. *)
Filling(from) == IF from = "fd" THEN {0, 2} ELSE 0..3

connectioninfo_slip ==
  \E a \in 0..4, b \in 0..4 :
    info' = IF a = 4 THEN Filled(info, "tcpserver", 4)
            ELSE Filled(Filled(info, "tcpserver", a), "curvecp", b)

connectioninfo ==
  \/ info' = Filled(info, "tcpserver", 4)
  \/ \E a \in Filling("tcpserver") :
       LET i == Filled(info, "tcpserver", a) IN
       \/ info' = Filled(i, "curvecp", 4)
       \/ \E b \in Filling("curvecp") :
            LET j == Filled(i, "curvecp", b) IN
            \/ info' = Filled(j, "fd", 4)
            \/ \E c \in Filling("fd") :
                 info' = Filled(Filled(j, "fd", c), "unknown", 4)

(* For the log. *)
connection_from ==
  /\ pc = "info"
  /\ connectioninfo
  /\ pc' = "keys"
  /\ UNCHANGED <<program, euid, letters, optVars, noneauth, offered, authorized, timeVars, why>>

(* global_init clears what the log was told. The algorithms of the selected
   types; the host key only if its file can be loaded. Then the first alarm. *)
Algorithms == [ed25519 |-> "new", curve25519 |-> "new", sntrup761 |-> "pq", chacha20 |-> "new"]

load_keys ==
  /\ pc = "keys"
  /\ \/ Die("fatal") /\ UNCHANGED <<offered, age, quiet>>
     \/ /\ \E lost \in SUBSET {"ed25519"} :
             offered' = {a \in DOMAIN Algorithms : Algorithms[a] \in types} \ lost
        /\ pc' = "hello" /\ alarm' = ShortTime /\ age' = 0 /\ quiet' = 0 /\ UNCHANGED why
  /\ info' = [f \in Fields |-> "none"]
  /\ UNCHANGED <<program, euid, letters, optVars, noneauth, authorized, sent>>

-----------------------------------------------------------------------------
(* The phases. The hello and the first KEXINIT share an alarm; the key
   exchange sets it anew, and the authentication does not. *)
rekeying ==
  /\ pc' = "kexdh" /\ alarm' = ShortTime

hello_done ==
  /\ pc = "hello"
  /\ rekeying
  /\ quiet' = 0
  /\ UNCHANGED <<program, euid, letters, optVars, noneauth, info, offered, authorized, age, why, sent>>

kexdh_done_slip ==
  /\ pc = "kexdh"
  /\ \/ authorized /\ pc' = "loop" /\ alarm' = LongTime
     \/ ~authorized /\ pc' = "auth" /\ alarm' = ShortTime
  /\ quiet' = 0
  /\ UNCHANGED <<program, euid, letters, optVars, noneauth, info, offered, authorized, age, why, sent>>

kexdh_done ==
  /\ pc = "kexdh"
  /\ \/ authorized /\ pc' = "loop" /\ alarm' = LongTime
     \/ ~authorized /\ pc' = "auth" /\ UNCHANGED alarm
  /\ quiet' = 0
  /\ UNCHANGED <<program, euid, letters, optVars, noneauth, info, offered, authorized, age, why, sent>>

auth_try ==
  /\ pc = "auth"
  /\ quiet' = 0
  /\ UNCHANGED <<pc, program, euid, letters, optVars, noneauth, info, offered, authorized,
                 alarm, age, why, sent>>

auth_done ==
  /\ pc = "auth"
  /\ authorized' = TRUE /\ pc' = "loop" /\ alarm' = LongTime /\ quiet' = 0
  /\ UNCHANGED <<program, euid, letters, optVars, noneauth, info, offered, age, why, sent>>

(* Bytes from the network start the long alarm again; nothing else does, not
   the output sent to the client. *)
loop_receive ==
  /\ pc = "loop"
  /\ alarm' = LongTime /\ quiet' = 0
  /\ UNCHANGED <<pc, program, euid, letters, optVars, noneauth, info, offered, authorized,
                 age, why, sent>>

loop_send_slip ==
  /\ pc = "loop"
  /\ sent' = TRUE /\ alarm' = LongTime
  /\ UNCHANGED <<pc, program, euid, letters, optVars, noneauth, info, offered, authorized,
                 age, quiet, why>>

loop_send ==
  /\ pc = "loop"
  /\ sent' = TRUE
  /\ UNCHANGED <<pc, program, euid, letters, optVars, noneauth, info, offered, authorized,
                 alarm, age, quiet, why>>

loop_rekey ==
  /\ pc = "loop"
  /\ rekeying /\ quiet' = 0
  /\ UNCHANGED <<program, euid, letters, optVars, noneauth, info, offered, authorized, age, why, sent>>

(* A channel is opened, once: the connection's addresses are found out anew
   for the environment. *)
channel_open ==
  /\ pc = "loop" /\ info["localip"] = "none"
  /\ connectioninfo
  /\ UNCHANGED <<pc, program, euid, letters, optVars, noneauth, offered, authorized, timeVars, why>>

phase_fails ==
  /\ pc \in {"hello", "kexdh", "auth", "loop"}
  /\ Die("fatal")
  /\ UNCHANGED <<program, euid, letters, optVars, noneauth, info, offered, authorized, age, quiet, sent>>

(* Time passes; when the alarm runs out the handler ends the process. *)
timeout ==
  /\ alarm > 0
  /\ age' = IF authorized \/ age = MaxAge THEN age ELSE age + 1
  /\ quiet' = IF quiet = LongTime THEN quiet ELSE quiet + 1
  /\ sent' = FALSE
  /\ IF alarm = 1 THEN Die("timeout")
     ELSE alarm' = alarm - 1 /\ UNCHANGED <<pc, why>>
  /\ UNCHANGED <<program, euid, letters, optVars, noneauth, info, offered, authorized>>

Client == hello_done \/ kexdh_done \/ auth_try \/ auth_done \/ loop_receive \/ loop_rekey

Next ==
  \/ option
  \/ check_noneauth
  \/ connection_from
  \/ load_keys
  \/ Client
  \/ loop_send
  \/ channel_open
  \/ phase_fails
  \/ timeout

(* Time does not stand still. *)
Spec == Init /\ [][Next]_vars /\ WF_vars(timeout)

-----------------------------------------------------------------------------
(* Types; the clock is armed exactly while a client is served. *)
StartupTypeOK ==
  /\ pc \in {"options", "info", "keys", "hello", "kexdh", "auth", "loop", "dead"}
  /\ verbose \in 0..4 /\ types \subseteq {"old", "new", "pq"}
  /\ logger \in BOOLEAN /\ command \in BOOLEAN
  /\ Len(subsystems) <= SubsystemMax
  /\ alarm \in 0..LongTime
  /\ alarm > 0 <=> pc \in {"hello", "kexdh", "auth", "loop"}

(* Between the hello and the moment the user is known, at most two short
   alarms pass, however often the client tries (main_tinysshd.c:225, :238). *)
UnknownUserBounded == ~authorized /\ pc # "dead" => age <= 2 * (ShortTime - 1)

(* A client that is known is cut off in the main loop only after a full long
   alarm without a byte from it (main_tinysshd.c:380), and in a key exchange
   only a full short alarm after the KEXINIT that began it, whatever it sent in
   between (main_tinysshd.c:238). *)
CutOnlyInTime ==
  [][authorized /\ pc' = "dead" /\ why' = "timeout" =>
       \/ pc = "loop" /\ quiet' >= LongTime
       \/ pc = "kexdh" /\ quiet' >= ShortTime]_vars

(* And a client that falls silent for good is cut off, whatever else the
   server is doing. *)
SilentClientEnds == <>[](alarm = 0) \/ []<><<Client>>_vars

(* The alarm ends the clients that fall silent, and others that are known only
   if a key exchange takes them too long. *)
SilenceEnds == CutOnlyInTime /\ SilentClientEnds

(* The four fields describe one connection: they come from one source, even
   where a source before it had filled some (connectioninfo.c:121). *)
OneSource ==
  \E s \in {"none", "tcpserver", "curvecp", "fd", "unknown"} : \A f \in Fields : info[f] = s

(* A server that lets anybody in runs one fixed command as a plain user. *)
NoneauthConfined ==
  alarm > 0 /\ program = "tinysshnoneauthd" => noneauth /\ command /\ euid # "root"

(* The last of the letters in S, if there is one. *)
Last(S) == {i \in DOMAIN letters : letters[i] \in S /\ \A j \in (i + 1)..Len(letters) : letters[j] \notin S}

(* A type was switched on last, or is on by default and was not mentioned. *)
Chosen(type, on, off, default) ==
  type \in types <=> \/ \E i \in Last({on, off}) : letters[i] = on
                     \/ default /\ Last({on, off}) = {}

Resets == Last({"q", "Q"})
Start == IF \E i \in Resets : letters[i] = "q" THEN 0 ELSE 1
Vs == {i \in DOMAIN letters : letters[i] = "v" /\ \A j \in Resets : j < i}
Verbosity == verbose = IF Start + Cardinality(Vs) > 4 THEN 4 ELSE Start + Cardinality(Vs)

(* The options mean what their last letters say: of the pair for a type the
   later one counts, and the verbosity is that of the last q or Q and the
   v's after it, up to 4. *)
OptionsLastWins ==
  pc = "options" =>
    /\ Chosen("old", "o", "O", FALSE)
    /\ Chosen("new", "s", "S", TRUE)
    /\ Chosen("pq", "p", "P", TRUE)
    /\ Verbosity

(* What the set-up leaves to the connection: options, source and rights. *)
OptionsRight == StartupTypeOK /\ OneSource /\ NoneauthConfined /\ OptionsLastWins
=============================================================================
