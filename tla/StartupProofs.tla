---------------------------- MODULE StartupProofs ----------------------------
(***************************************************************************)
(* What holds of the options and the alarm clock for every command line,   *)
(* every pair of times and any number of subsystems.                       *)
(*                                                                         *)
(* A client that is not known has two short alarms, not one for each       *)
(* phase: what is left of the alarm and the age add up to a bound that     *)
(* only the key exchange raises, once (Unknown). A client in the main loop *)
(* has a whole long alarm: what is left of it and the silence add up to    *)
(* it. In a key exchange, the one place where else a client that is known  *)
(* can be, the same holds of a short alarm and the time since its KEXINIT  *)
(* (Silence).                                                              *)
(***************************************************************************)
EXTENDS Startup, FiniteSetTheorems, SequenceTheorems, TLAPS

Before == {"options", "info", "keys"}
Phases == {"hello", "kexdh", "auth", "loop"}

Clock ==
  /\ pc \in Before \cup Phases \cup {"dead"}
  /\ alarm \in 0..LongTime
  /\ alarm > 0 <=> pc \in Phases
  /\ age \in Nat /\ quiet \in Nat

Unknown ==
  ~authorized =>
    /\ pc \in Before => age = 0
    /\ pc = "hello" => age + alarm <= ShortTime
    /\ pc \in {"kexdh", "auth"} => age + alarm <= 2 * ShortTime - 1
    /\ pc # "loop"

Silence ==
  /\ pc = "loop" => quiet + alarm >= LongTime
  /\ pc = "kexdh" => quiet + alarm >= ShortTime
  /\ authorized => pc \in {"kexdh", "loop", "dead"}

Settings ==
  /\ letters \in Seq(Letters)
  /\ subsystems \in Seq(Nat) /\ Len(subsystems) <= SubsystemMax
  /\ verbose \in 0..4 /\ types \subseteq {"old", "new", "pq"}
  /\ logger \in BOOLEAN /\ command \in BOOLEAN

(* From the check on, and not only while the clock is armed. *)
Confined ==
  pc \in {"info", "keys"} \cup Phases /\ program = "tinysshnoneauthd" =>
    noneauth /\ command /\ euid # "root"

TimeInv == Clock /\ Unknown /\ Silence
Inv == TimeInv /\ Settings /\ Confined /\ OneSource /\ OptionsLastWins
-----------------------------------------------------------------------------
(* The constants, as numbers. *)
LEMMA Constants ==
  /\ ShortTime \in Nat /\ ShortTime > 0 /\ LongTime \in Nat /\ ShortTime <= LongTime
  /\ SubsystemMax \in Nat /\ MaxLetters \in Nat /\ MaxAge \in Nat
  BY StartupAssumption

(* The alarm is set by load_keys, rekeying, the end of the authentication and
   the bytes that come in, and by nothing else (main_tinysshd.c:225, :238, :380). *)
LEMMA TimeStep == TimeInv /\ [Next]_vars => TimeInv'
<1> SUFFICES ASSUME TimeInv, [Next]_vars PROVE TimeInv'
  OBVIOUS
<1> USE Constants DEF TimeInv, Clock, Unknown, Silence, Before, Phases
<1>1. ASSUME NEW reason, Die(reason), UNCHANGED <<age, quiet, authorized>> PROVE TimeInv'
  BY <1>1 DEF Die
<1>2. CASE option
  <2>1. UNCHANGED <<pc, alarm, why>> \/ Die("usage")
    BY <1>2 DEF option
  <2>2. UNCHANGED <<age, quiet, authorized>>
    BY <1>2 DEF option
  <2> QED
    BY <1>1, <2>1, <2>2
<1>3. CASE check_noneauth
  <2>1. \/ Die("usage") \/ Die("fatal")
        \/ pc = "options" /\ pc' = "info" /\ UNCHANGED alarm
    BY <1>3 DEF check_noneauth
  <2>2. UNCHANGED <<age, quiet, authorized>>
    BY <1>3 DEF check_noneauth
  <2> QED
    BY <1>1, <2>1, <2>2
<1>4. CASE connection_from
  BY <1>4 DEF connection_from, timeVars
<1>5. CASE load_keys
  BY <1>5 DEF load_keys, Die
<1>6. CASE hello_done
  BY <1>6 DEF hello_done, rekeying
<1>7. CASE kexdh_done
  BY <1>7 DEF kexdh_done
<1>8. CASE auth_try
  BY <1>8 DEF auth_try
<1>9. CASE auth_done
  BY <1>9 DEF auth_done
<1>10. CASE loop_receive
  BY <1>10 DEF loop_receive
<1>11. CASE loop_send
  BY <1>11 DEF loop_send
<1>12. CASE loop_rekey
  BY <1>12 DEF loop_rekey, rekeying
<1>13. CASE channel_open
  BY <1>13 DEF channel_open, timeVars
<1>14. CASE phase_fails
  BY <1>1, <1>14 DEF phase_fails
<1>15. CASE timeout
  BY <1>15 DEF timeout, Die
<1>16. CASE UNCHANGED vars
  BY <1>16 DEF vars
<1> QED
  BY <1>2, <1>3, <1>4, <1>5, <1>6, <1>7, <1>8, <1>9, <1>10, <1>11, <1>12, <1>13, <1>14, <1>15, <1>16
     DEF Next, Client

(* The clock is not armed before the keys are loaded. *)
LEMMA TimeInit == Init => TimeInv
  BY Constants DEF Init, TimeInv, Clock, Unknown, Silence, Before, Phases

(* For any two times: the user is known within two short alarms of the hello,
   however often the client tries, or the process ends (main_tinysshd.c:225, :238). *)
THEOREM UnknownUserIsBounded == Spec => []UnknownUserBounded
<1>1. TimeInv => UnknownUserBounded
  BY Constants DEF TimeInv, Clock, Unknown, Before, Phases, UnknownUserBounded
<1> QED
  BY <1>1, TimeInit, TimeStep, PTL DEF Spec

(* For any two times: a client that is known is cut off in the main loop only
   when it was silent for a whole long alarm, whatever the server sends
   (main_tinysshd.c:380), in a key exchange only a whole short alarm after the
   KEXINIT, whatever it sends itself (main_tinysshd.c:238), and nowhere else. *)
THEOREM CutOffOnlyInTime == Spec => CutOnlyInTime
<1> DEFINE Late == \/ pc = "loop" /\ quiet' >= LongTime
                   \/ pc = "kexdh" /\ quiet' >= ShortTime
           Cut == authorized /\ pc' = "dead" /\ why' = "timeout" => Late
<1>1. TimeInv /\ [Next]_vars => [Cut]_vars
  <2> SUFFICES ASSUME TimeInv, [Next]_vars, vars' # vars, authorized, pc' = "dead", why' = "timeout"
               PROVE  Late
    OBVIOUS
  <2> USE Constants
  <2>1. CASE timeout
    BY <2>1 DEF timeout, Die, TimeInv, Clock, Silence, Phases
  <2>2. ~phase_fails
    BY DEF phase_fails, Die
  <2>3. pc \in {"kexdh", "loop", "dead"}
    BY DEF TimeInv, Silence
  <2> QED
    BY <2>1, <2>2, <2>3 DEF Next, Client, option, check_noneauth, connection_from, load_keys, hello_done,
       kexdh_done, auth_try, auth_done, loop_receive, loop_send, loop_rekey, rekeying, channel_open
<1> QED
  BY <1>1, TimeInit, TimeStep, PTL DEF Spec, CutOnlyInTime
-----------------------------------------------------------------------------
(* Of a set that contains the new letter, that letter is the last; of any
   other the last one stays. *)
LEMMA LastAppended ==
  ASSUME letters \in Seq(Letters), NEW c \in Letters, letters' = Append(letters, c), NEW S
  PROVE  /\ c \in S => Last(S)' = {Len(letters) + 1}
         /\ c \notin S => Last(S)' = Last(S)
         /\ \A i \in Last(S) : i \in 1..Len(letters) /\ letters'[i] = letters[i]
         /\ letters'[Len(letters) + 1] = c
<1>1. /\ Len(letters) \in Nat /\ Len(letters') = Len(letters) + 1
      /\ DOMAIN letters = 1..Len(letters) /\ DOMAIN letters' = 1..(Len(letters) + 1)
      /\ letters'[Len(letters) + 1] = c
      /\ \A i \in 1..Len(letters) : letters'[i] = letters[i]
  <2>1. letters' \in Seq(Letters) /\ Len(letters') = Len(letters) + 1
        /\ letters'[Len(letters) + 1] = c
        /\ \A i \in 1..Len(letters) : letters'[i] = letters[i]
    BY AppendProperties
  <2> QED
    BY <2>1, LenProperties
<1>2. Last(S)' = {i \in DOMAIN letters' : letters'[i] \in S
                    /\ \A j \in (i + 1)..Len(letters') : letters'[j] \notin S}
  BY DEF Last
<1>3. c \in S => Last(S)' = {Len(letters) + 1}
  BY <1>1, <1>2
<1>4. c \notin S => Last(S)' = Last(S)
  BY <1>1, <1>2 DEF Last
<1>5. \A i \in Last(S) : i \in 1..Len(letters) /\ letters'[i] = letters[i]
  BY <1>1 DEF Last
<1> QED
  BY <1>1, <1>3, <1>4, <1>5

(* A pair of letters after one more (main_tinysshd.c:96). *)
LEMMA ChosenAppended ==
  ASSUME letters \in Seq(Letters), NEW c \in Letters, letters' = Append(letters, c),
         NEW type, NEW on, NEW off, on # off, NEW default, Chosen(type, on, off, default),
         c = on => type \in types', c = off => type \notin types',
         c \notin {on, off} => (type \in types' <=> type \in types)
  PROVE  Chosen(type, on, off, default)'
<1> DEFINE S == {on, off}
<1> HIDE DEF S
<1>1. CASE c \in S
  <2>1. Last(S)' = {Len(letters) + 1} /\ letters'[Len(letters) + 1] = c
    BY <1>1, LastAppended
  <2>2. type \in types' <=> c = on
    BY <1>1 DEF S
  <2> QED
    BY <2>1, <2>2 DEF Chosen, S
<1>2. CASE c \notin S
  <2>1. Last(S)' = Last(S) /\ \A i \in Last(S) : letters'[i] = letters[i]
    BY <1>2, LastAppended
  <2>2. type \in types' <=> type \in types
    BY <1>2 DEF S
  <2> QED
    BY <2>1, <2>2 DEF Chosen, S
<1> QED
  BY <1>1, <1>2

(* The verbosity after one more letter (main_tinysshd.c:93). *)
LEMMA VerbosityAppended ==
  ASSUME letters \in Seq(Letters), NEW c \in Letters, letters' = Append(letters, c),
         verbose \in 0..4, verbose' = verbosity(c), Verbosity
  PROVE  Verbosity' /\ verbose' \in 0..4
<1>1. /\ Len(letters) \in Nat /\ DOMAIN letters = 1..Len(letters)
      /\ DOMAIN letters' = 1..(Len(letters) + 1)
      /\ letters'[Len(letters) + 1] = c
      /\ \A i \in 1..Len(letters) : letters'[i] = letters[i]
  <2>1. letters' \in Seq(Letters) /\ Len(letters') = Len(letters) + 1
        /\ letters'[Len(letters) + 1] = c
        /\ \A i \in 1..Len(letters) : letters'[i] = letters[i]
    BY AppendProperties
  <2> QED
    BY <2>1, LenProperties
<1>2. /\ c \in {"q", "Q"} => Resets' = {Len(letters) + 1}
      /\ c \notin {"q", "Q"} => Resets' = Resets
      /\ \A i \in Resets : i \in 1..Len(letters) /\ letters'[i] = letters[i]
  BY LastAppended DEF Resets
<1>3. IsFiniteSet(Vs) /\ Cardinality(Vs) \in Nat
  <2>1. Vs \subseteq 1..Len(letters) /\ IsFiniteSet(1..Len(letters))
    BY <1>1, FS_Interval DEF Vs
  <2>2. IsFiniteSet(Vs)
    BY <2>1, FS_Subset
  <2> QED
    BY <2>2, FS_CardinalityType
<1>4. Start \in 0..1
  BY DEF Start
<1>5. CASE c \in {"q", "Q"}
  <2>1. Vs' = {}
    <3> SUFFICES ASSUME NEW i \in Vs' PROVE FALSE
      OBVIOUS
    <3>1. i \in 1..(Len(letters) + 1) /\ \A j \in Resets' : j < i
      BY <1>1 DEF Vs
    <3>2. Len(letters) + 1 \in Resets'
      BY <1>2, <1>5
    <3>3. Len(letters) + 1 < i
      BY <3>1, <3>2
    <3> QED
      BY <1>1, <3>1, <3>3
  <2>2. Cardinality(Vs') = 0
    BY <2>1, FS_EmptySet
  <2>3. Start' = IF c = "q" THEN 0 ELSE 1
    BY <1>1, <1>2, <1>5 DEF Start
  <2>4. verbose' = IF c = "q" THEN 0 ELSE 1
    BY <1>5 DEF verbosity
  <2> QED
    BY <2>2, <2>3, <2>4 DEF Verbosity
<1>6. CASE c = "v"
  <2>1. Vs' = Vs \cup {Len(letters) + 1} /\ Len(letters) + 1 \notin Vs
    BY <1>1, <1>2, <1>6 DEF Vs
  <2>2. Cardinality(Vs') = Cardinality(Vs) + 1
    BY <1>3, <2>1, FS_AddElement
  <2>3. Start' = Start
    BY <1>2, <1>6 DEF Start
  <2>4. verbose' = IF verbose + 1 >= 4 THEN 4 ELSE verbose + 1
    BY <1>6 DEF verbosity
  <2> QED
    BY <1>3, <1>4, <2>2, <2>3, <2>4 DEF Verbosity
<1>7. CASE c \notin {"q", "Q", "v"}
  <2>1. Vs' = Vs
    BY <1>1, <1>2, <1>7 DEF Vs
  <2>2. Start' = Start /\ verbose' = verbose
    BY <1>2, <1>7 DEF Start, verbosity
  <2> QED
    BY <2>1, <2>2 DEF Verbosity
<1> QED
  BY <1>5, <1>6, <1>7

(* The set-up after one more letter. *)
LEMMA OptionStep == Settings /\ OptionsLastWins /\ option => Settings' /\ OptionsLastWins'
<1> SUFFICES ASSUME Settings, OptionsLastWins, option PROVE Settings' /\ OptionsLastWins'
  OBVIOUS
<1> USE Constants DEF Settings
<1>1. PICK c \in Letters : letters' = Append(letters, c)
        /\ \/ /\ c \in {"x", "?"} /\ Die("usage") /\ UNCHANGED optVars
           \/ /\ c # "?" /\ verbose' = verbosity(c) /\ types' = cryptotypes(c)
              /\ logger' = (IF c \in {"l", "L"} THEN c = "l" ELSE logger)
              /\ command' = (command \/ c = "e")
              /\ IF c = "x" THEN channel_subsystem_add ELSE UNCHANGED subsystems
              /\ UNCHANGED <<pc, alarm, why>>
  BY DEF option
<1>2. pc = "options" /\ Chosen("old", "o", "O", FALSE) /\ Chosen("new", "s", "S", TRUE)
      /\ Chosen("pq", "p", "P", TRUE) /\ Verbosity
  BY DEF option, OptionsLastWins
<1>3. letters' \in Seq(Letters) /\ Len(letters) \in Nat
  BY <1>1, AppendProperties, LenProperties
<1>4. CASE Die("usage") /\ UNCHANGED optVars
  BY <1>3, <1>4 DEF Die, optVars, OptionsLastWins
<1>5. CASE /\ verbose' = verbosity(c) /\ types' = cryptotypes(c)
           /\ logger' = (IF c \in {"l", "L"} THEN c = "l" ELSE logger)
           /\ command' = (command \/ c = "e")
           /\ IF c = "x" THEN channel_subsystem_add ELSE UNCHANGED subsystems
  <2>1. Verbosity' /\ verbose' \in 0..4
    BY <1>1, <1>2, <1>5, VerbosityAppended
  <2>2. types' \subseteq {"old", "new", "pq"}
    BY <1>5 DEF cryptotypes
  <2>3. Chosen("old", "o", "O", FALSE)'
    <3>1. /\ c = "o" => "old" \in types'
          /\ c = "O" => "old" \notin types'
          /\ c \notin {"o", "O"} => ("old" \in types' <=> "old" \in types)
      BY <1>5 DEF cryptotypes
    <3> QED
      BY <1>1, <1>2, <3>1, ChosenAppended
  <2>4. Chosen("new", "s", "S", TRUE)'
    <3>1. /\ c = "s" => "new" \in types'
          /\ c = "S" => "new" \notin types'
          /\ c \notin {"s", "S"} => ("new" \in types' <=> "new" \in types)
      BY <1>5 DEF cryptotypes
    <3> QED
      BY <1>1, <1>2, <3>1, ChosenAppended
  <2>5. Chosen("pq", "p", "P", TRUE)'
    <3>1. /\ c = "p" => "pq" \in types'
          /\ c = "P" => "pq" \notin types'
          /\ c \notin {"p", "P"} => ("pq" \in types' <=> "pq" \in types)
      BY <1>5 DEF cryptotypes
    <3> QED
      BY <1>1, <1>2, <3>1, ChosenAppended
  <2>6. subsystems' \in Seq(Nat) /\ Len(subsystems') <= SubsystemMax
    <3>1. CASE channel_subsystem_add
      <4>1. Append(subsystems, Len(letters) + 1) \in Seq(Nat)
            /\ Len(Append(subsystems, Len(letters) + 1)) = Len(subsystems) + 1
        BY <1>3, AppendProperties
      <4>2. Len(subsystems) \in Nat
        BY LenProperties
      <4> QED
        BY <3>1, <4>1, <4>2 DEF channel_subsystem_add
    <3> QED
      BY <1>5, <3>1
  <2>7. logger' \in BOOLEAN
    BY <1>5
  <2>8. command' \in BOOLEAN
    BY <1>5
  <2>9. OptionsLastWins'
    BY <2>1, <2>3, <2>4, <2>5 DEF OptionsLastWins
  <2>10. Settings'
    BY <1>3, <2>1, <2>2, <2>6, <2>7, <2>8, Zenon DEF Settings
  <2> QED
    BY <2>9, <2>10
<1> QED
  BY <1>1, <1>4, <1>5
-----------------------------------------------------------------------------
(* Whichever source connectioninfo ends with, it has filled all four fields
   (connectioninfo.c:121). *)
LEMMA FilledByOne == connectioninfo => OneSource'
<1> SUFFICES ASSUME connectioninfo PROVE OneSource'
  OBVIOUS
<1>1. ASSUME NEW i, NEW from, NEW f \in Fields PROVE Filled(i, from, 4)[f] = from
  <2>1. \E j \in 1..4 : Order[j] = f
    BY DEF Fields, Order
  <2> QED
    BY <2>1 DEF Filled
<1>2. \E i, from : from \in {"tcpserver", "curvecp", "fd", "unknown"} /\ info' = Filled(i, from, 4)
  BY DEF connectioninfo
<1> QED
  BY <1>1, <1>2 DEF OneSource

(* The set-up is right at every step; the options only change while they are
   read, and are checked when that ends (main_tinysshd.c:159). *)
LEMMA SetupStep == Inv /\ [Next]_vars => Inv'
<1> SUFFICES ASSUME Inv, [Next]_vars PROVE Inv'
  OBVIOUS
<1>1. TimeInv'
  BY TimeStep DEF Inv
<1>2. Settings' /\ OptionsLastWins'
  <2>1. CASE option
    BY <2>1, OptionStep DEF Inv
  <2>2. CASE UNCHANGED <<letters, optVars>> /\ pc' # "options"
    BY <2>2 DEF Inv, Settings, OptionsLastWins, optVars
  <2>3. CASE check_noneauth
    <3>1. letters' = <<>> /\ UNCHANGED optVars /\ pc' # "options"
      BY <2>3 DEF check_noneauth, Die
    <3>2. letters' \in Seq(Letters)
      BY <3>1, EmptySeq
    <3> QED
      BY <3>1, <3>2 DEF Inv, Settings, OptionsLastWins, optVars
  <2>4. CASE UNCHANGED vars
    <3>1. UNCHANGED <<letters, optVars, pc>>
      BY <2>4 DEF vars, optVars
    <3> QED
      BY <3>1 DEF Inv, Settings, OptionsLastWins, Chosen, Verbosity, Vs, Start, Resets, Last, optVars
  <2>5. CASE timeout
    <3>1. alarm > 0 /\ UNCHANGED <<letters, optVars>> /\ (pc' = "dead" \/ pc' = pc)
      BY <2>5 DEF timeout, Die
    <3>2. pc # "options"
      BY <3>1 DEF Inv, TimeInv, Clock, Phases
    <3> QED
      BY <2>2, <3>1, <3>2
  <2>6. CASE connection_from \/ load_keys \/ hello_done \/ kexdh_done \/ auth_try \/ auth_done
             \/ loop_receive \/ loop_rekey \/ loop_send \/ channel_open \/ phase_fails
    <3>1. UNCHANGED <<letters, optVars>> /\ pc' # "options"
      BY <2>6 DEF connection_from, load_keys, hello_done, kexdh_done, auth_try, auth_done, loop_receive,
         loop_rekey, loop_send, channel_open, phase_fails, rekeying, Die
    <3> QED
      BY <2>2, <3>1
  <2> QED
    BY <2>1, <2>3, <2>4, <2>5, <2>6 DEF Next, Client
<1>3. Confined'
  <2> USE DEF Inv, Confined, Phases
  <2>1. CASE option
    BY <2>1 DEF option, Die
  <2>2. CASE check_noneauth
    BY <2>2 DEF check_noneauth, Die, optVars
  <2>3. CASE timeout
    BY <2>3 DEF timeout, Die, optVars
  <2>4. CASE connection_from \/ load_keys \/ hello_done \/ kexdh_done \/ auth_try \/ auth_done
             \/ loop_receive \/ loop_rekey \/ loop_send \/ channel_open \/ phase_fails
    <3>1. /\ UNCHANGED <<program, euid, command, noneauth>>
          /\ pc' = "dead" \/ pc \in {"info", "keys"} \cup Phases
      BY <2>4 DEF connection_from, load_keys, hello_done, kexdh_done, auth_try, auth_done, loop_receive,
         loop_rekey, loop_send, channel_open, phase_fails, rekeying, Die, optVars
    <3> QED
      BY <3>1
  <2>5. CASE UNCHANGED vars
    BY <2>5 DEF vars
  <2> QED
    BY <2>1, <2>2, <2>3, <2>4, <2>5 DEF Next, Client
<1>4. OneSource'
  <2>1. CASE connection_from \/ channel_open
    BY <2>1, FilledByOne DEF connection_from, channel_open
  <2>2. CASE load_keys
    BY <2>2 DEF load_keys, OneSource
  <2>3. CASE UNCHANGED info
    BY <2>3 DEF Inv, OneSource
  <2> QED
    BY <2>1, <2>2, <2>3 DEF Next, Client, option, check_noneauth, hello_done, kexdh_done, auth_try,
       auth_done, loop_receive, loop_rekey, loop_send, phase_fails, timeout, vars
<1> QED
  BY <1>1, <1>2, <1>3, <1>4 DEF Inv

(* Before the first letter everything has its default (main_tinysshd.c:61). *)
LEMMA SetupInit == Init => Inv
<1> SUFFICES ASSUME Init PROVE Inv
  OBVIOUS
<1> USE Constants
<1>1. TimeInv
  BY TimeInit
<1>2. letters = <<>> /\ letters \in Seq(Letters) /\ Len(letters) = 0 /\ DOMAIN letters = {}
  BY EmptySeq DEF Init
<1>3. \A S : Last(S) = {}
  BY <1>2 DEF Last
<1>4. subsystems \in Seq(Nat) /\ Len(subsystems) = 0
  BY EmptySeq DEF Init
<1>5. logger \in BOOLEAN /\ command \in BOOLEAN
  BY Zenon DEF Init
<1>6. Settings
  BY <1>2, <1>4, <1>5 DEF Init, Settings
<1>7. Verbosity
  <2>1. Vs = {} /\ Start = 1
    BY <1>2, <1>3 DEF Vs, Start, Resets
  <2>2. Cardinality(Vs) = 0
    BY <2>1, FS_EmptySet
  <2> QED
    BY <2>1, <2>2 DEF Verbosity, Init
<1>8. OptionsLastWins
  BY <1>3, <1>7 DEF OptionsLastWins, Chosen, Init
<1>9. Confined /\ OneSource
  BY DEF Init, Confined, Phases, OneSource
<1> QED
  BY <1>1, <1>6, <1>8, <1>9 DEF Inv

(* For every command line: the options say what their last letters say, the
   table of subsystems is not overrun, the four fields of an address come from
   one source, and a server that lets anybody in is confined
   (main_tinysshd.c:61, connectioninfo.c:121, channel_subsystem.c). *)
THEOREM OptionsAreRight == Spec => []OptionsRight
<1>1. Inv => OptionsRight
  <2> SUFFICES ASSUME Inv PROVE OptionsRight
    OBVIOUS
  <2>1. StartupTypeOK
    BY Zenon DEF Inv, TimeInv, Clock, Settings, Before, Phases, StartupTypeOK
  <2>2. NoneauthConfined
    BY DEF Inv, TimeInv, Clock, Confined, Phases, NoneauthConfined
  <2> QED
    BY <2>1, <2>2 DEF Inv, OptionsRight
<1> QED
  BY <1>1, SetupInit, SetupStep, PTL DEF Spec
=============================================================================
