--------------------------- MODULE StartupProofs ---------------------------
(***************************************************************************)
(* Starting and stopping the daemon, proved for all 21 events, whichever   *)
(* the kernel has, any DISABLE, any records in ERST, and any number of     *)
(* starts, commands and failures; the choice of the decoder for every      *)
(* /proc/cpuinfo; and the settings for every number and every width of     *)
(* unsigned long.                                                          *)
(***************************************************************************)
EXTENDS Startup, TLAPS

-----------------------------------------------------------------------------
(* The two lists of events.                                                *)

(* Every event that the daemon registers, net_dev_xmit_timeout apart, is   *)
(* in the list of --enable and --disable.                                  *)
LEMMA ListsAgree ==
    ASSUME NEW k \in 1..Len(HandlerEvents)
    PROVE  \/ HandlerEvents[k] = "net_dev_xmit_timeout"
           \/ \E j \in 1..Len(ToggleEvents) : ToggleEvents[j] = HandlerEvents[k]
<1> DEFINE H == HandlerEvents
           T == ToggleEvents
<1>1. Len(H) = 21 /\ Len(T) = 20
  BY DEF HandlerEvents, ToggleEvents
<1>2. /\ H[1] = T[1] /\ H[2] = T[2] /\ H[3] = T[5] /\ H[4] = T[6]
      /\ H[5] = T[3] /\ H[6] = T[4] /\ H[7] = "net_dev_xmit_timeout" /\ H[8] = T[7]
      /\ H[9] = T[8] /\ H[10] = T[9] /\ H[11] = T[10] /\ H[12] = T[11]
      /\ H[13] = T[12] /\ H[14] = T[13] /\ H[15] = T[14] /\ H[16] = T[15]
      /\ H[17] = T[16] /\ H[18] = T[17] /\ H[19] = T[18] /\ H[20] = T[19] /\ H[21] = T[20]
  BY DEF HandlerEvents, ToggleEvents
<1> HIDE DEF H, T
<1>3. k \in 1..21
  BY <1>1 DEF H
<1>4. H[k] = "net_dev_xmit_timeout" \/ \E j \in 1..20 : T[j] = H[k]
  BY <1>2, <1>3
<1> QED
  BY <1>1, <1>4 DEF H, T

-----------------------------------------------------------------------------
(* The inductive invariant, in parts.                                      *)

Toggled(e) == \E j \in 1..Len(ToggleEvents) : ToggleEvents[j] = e

\* What is on exists and is in a list; the command knows where it is.
ListsOK ==
    /\ at \in Nat \ {0}
    /\ cmd \in [op : {"none", "enable", "disable", "disabled"}, at : Nat \ {0},
                disabled : Disables \cup {{}}, clean : BOOLEAN]
    /\ exist \subseteq Modelled /\ set_event \subseteq exist
    /\ \A e \in set_event : e = "net_dev_xmit_timeout" \/ Toggled(e)

\* The events a clean `--disable' has passed are off.
PassedOff ==
    cmd.op \in {"disable", "disabled"} /\ cmd.clean =>
        \A j \in 1..Len(ToggleEvents) :
            j < cmd.at \/ cmd.op = "disabled" => ToggleEvents[j] \notin set_event

\* An event is counted when it was registered and switched on.
CountsOK ==
    /\ counted \subseteq registered \cap (set_event \cup off)
    /\ daemon = "down" => counted = {}
    /\ daemon = "listen" => counted # {}

\* Unfiltered signals are only switched on by `--enable'.
FilterOK ==
    /\ "signal_generate" \in set_event /\ ~filter => early
    /\ raw => early

\* A record is in hand only while it is being reported.
InHand == daemon # "report" => cur = NoRecord

StartInv == ListsOK /\ PassedOff /\ CountsOK /\ FilterOK /\ InHand /\ ErstNotLost

(* Two kinds of steps: the daemon and the commands leave the setting       *)
(* alone, and reading the setting leaves everything else alone.            *)
LEMMA StartSteps ==
    ASSUME [StartNext]_<<vars, startvars>>
    PROVE  \/ Start \/ (\E f \in Records : handle_erst_mce_file(f)) \/ ras_erst_mce_handler
           \/ ErstDone \/ get_tracing_dir \/ Register \/ Registered \/ Stop
           \/ Command \/ Toggle \/ CommandDone \/ OtherSignal
           \/ UNCHANGED startvars
BY DEF StartNext

(* The invariant holds initially.                                          *)
LEMMA InitStartInv == StartInit => StartInv
<1> SUFFICES ASSUME StartInit PROVE StartInv
  OBVIOUS
<1>1. /\ set_event = {} /\ raw = FALSE /\ erst = Records /\ daemon = "down" /\ at = 1
      /\ cur = NoRecord /\ counted = {} /\ cmd = NoCommand /\ exist \subseteq Modelled
  BY DEF StartInit
<1>2. ListsOK
  BY <1>1 DEF ListsOK, NoCommand
<1>3. PassedOff /\ CountsOK /\ InHand /\ ErstNotLost
  BY <1>1 DEF PassedOff, CountsOK, InHand, ErstNotLost, NoCommand
<1>4. FilterOK
  BY <1>1 DEF FilterOK
<1> QED
  BY <1>2, <1>3, <1>4 DEF StartInv

(* What a step of Register can do: the event is the first of the list that *)
(* was not looked at; it is switched on, or not.                           *)
LEMMA RegisterStep ==
    ASSUME ListsOK, Register
    PROVE  \E k \in 1..Len(HandlerEvents) :
              /\ at' = k + 1 /\ daemon = "register"
              /\ UNCHANGED <<exist, raw, erst, daemon, cur, reported, cut, early>>
              /\ registered \subseteq registered'
              /\ \/ /\ UNCHANGED <<set_event, cmd, counted>>
                    /\ filter' = filter \/ filter' = TRUE
                 \/ /\ HandlerEvents[k] \in exist /\ set_event' = set_event \cup {HandlerEvents[k]}
                    /\ cmd' = Tainted /\ HandlerEvents[k] \in registered'
                    /\ counted' \subseteq counted \cup {HandlerEvents[k]}
                    /\ HandlerEvents[k] = "signal_generate" => filter' = TRUE
                    /\ HandlerEvents[k] # "signal_generate" => filter' = filter
              /\ off' = off \ (set_event' \ set_event)
<1>1. PICK k \in From(HandlerEvents, at) :
         LET e == HandlerEvents[k]
         IN  /\ IsFirst(k, From(HandlerEvents, at)) /\ at' = k + 1
             /\ \/ ~Wanted(e) /\ UNCHANGED <<registered, counted, set_event, filter, cmd, faults>>
                \/ /\ Wanted(e) /\ add_event_handler(e)
                   /\ IF e = "signal_generate" THEN filter_ras_mc_event ELSE UNCHANGED filter
                \/ /\ Wanted(e) /\ e = "signal_generate"
                   /\ Fault /\ UNCHANGED <<registered, counted, set_event, filter, cmd>>
  BY DEF Register
<1>2. k \in 1..Len(HandlerEvents)
  <2>1. Len(HandlerEvents) = 21
    BY DEF HandlerEvents
  <2> QED
    BY <2>1 DEF From, ListsOK
<1>3. /\ daemon = "register" /\ off' = off \ (set_event' \ set_event)
      /\ UNCHANGED <<exist, raw, erst, daemon, cur, reported, cut, early>>
  BY DEF Register
<1> DEFINE e == HandlerEvents[k]
<1>4. /\ at' = k + 1
      /\ \/ ~Wanted(e) /\ UNCHANGED <<registered, counted, set_event, filter, cmd, faults>>
         \/ /\ Wanted(e) /\ add_event_handler(e)
            /\ IF e = "signal_generate" THEN filter_ras_mc_event ELSE UNCHANGED filter
         \/ /\ Wanted(e) /\ e = "signal_generate"
            /\ Fault /\ UNCHANGED <<registered, counted, set_event, filter, cmd>>
  BY <1>1
<1> HIDE DEF e
<1>5. /\ registered \subseteq registered'
      /\ \/ /\ UNCHANGED <<set_event, cmd, counted>>
            /\ filter' = filter \/ filter' = TRUE
         \/ /\ e \in exist /\ set_event' = set_event \cup {e}
            /\ cmd' = Tainted /\ e \in registered' /\ counted' \subseteq counted \cup {e}
            /\ e = "signal_generate" => filter' = TRUE
            /\ e # "signal_generate" => filter' = filter
  <2>1. CASE ~Wanted(e) /\ UNCHANGED <<registered, counted, set_event, filter, cmd, faults>>
    BY <2>1
  <2>2. CASE Wanted(e) /\ Fault /\ UNCHANGED <<registered, counted, set_event, filter, cmd>>
    BY <2>2
  <2>3. CASE /\ Wanted(e) /\ add_event_handler(e)
             /\ IF e = "signal_generate" THEN filter_ras_mc_event ELSE UNCHANGED filter
    <3>1. /\ e \in exist
          /\ e = "signal_generate" => filter' = TRUE
          /\ e # "signal_generate" => filter' = filter
      BY <2>3 DEF Wanted, filter_ras_mc_event
    <3>2. \/ /\ UNCHANGED <<set_event, cmd, counted>> /\ registered \subseteq registered'
          \/ /\ registered' = registered \cup {e}
             /\ set_event' = set_event \cup {e} /\ cmd' = Tainted
             /\ counted' \subseteq counted \cup {e}
      BY <2>3 DEF add_event_handler
    <3> QED
      BY <3>1, <3>2
  <2> QED
    BY <1>4, <2>1, <2>2, <2>3
<1> QED
  BY <1>2, <1>3, <1>4, <1>5 DEF e

(* What a step of Toggle can do: it goes on to the first event that was    *)
(* not looked at; that one is switched, or the kernel does not have it, or *)
(* the write fails.                                                        *)
LEMMA ToggleStep ==
    ASSUME ListsOK, Toggle
    PROVE  \E k \in 1..Len(ToggleEvents) :
              /\ cmd.op \in {"enable", "disable"} /\ k >= cmd.at
              /\ \A j \in 1..Len(ToggleEvents) :
                     j >= cmd.at /\ j < k => ToggleEvents[j] \notin Modelled
              /\ UNCHANGED <<exist, filter, raw, erst, daemon, at, cur, registered, counted, reported, cut>>
              /\ \/ /\ ToggleEvents[k] \in exist /\ cmd.op = "enable"
                    /\ set_event' = set_event \cup {ToggleEvents[k]} /\ off' = off \ {ToggleEvents[k]}
                    /\ early' = (early \/ (ToggleEvents[k] = "signal_generate" /\ ~filter))
                    /\ cmd' = [cmd EXCEPT !.at = k + 1]
                 \/ /\ set_event' = set_event \ {ToggleEvents[k]} /\ off' = off \cup {ToggleEvents[k]}
                    /\ early' = (early \/ FALSE)
                    /\ cmd' = [cmd EXCEPT !.at = k + 1]
                 \/ /\ UNCHANGED <<set_event, off, early>>
                    /\ cmd' = [cmd EXCEPT !.at = k + 1, !.clean = FALSE]
                 \/ /\ UNCHANGED <<set_event, off, early>> /\ ToggleEvents[k] \notin exist
                    /\ cmd' = [cmd EXCEPT !.at = k + 1]
<1>1. PICK k \in From(ToggleEvents, cmd.at) :
         LET e == ToggleEvents[k]
             on == cmd.op = "enable" /\ e \notin cmd.disabled
         IN  /\ IsFirst(k, From(ToggleEvents, cmd.at))
             /\ \/ /\ e \in exist /\ NoFault
                   /\ set_event' = IF on THEN set_event \cup {e} ELSE set_event \ {e}
                   /\ off' = IF on THEN off \ {e} ELSE off \cup {e}
                   /\ early' = (early \/ (on /\ e = "signal_generate" /\ ~filter))
                   /\ cmd' = [cmd EXCEPT !.at = k + 1]
                \/ /\ UNCHANGED <<set_event, off, early>>
                   /\ IF e \in exist THEN Fault /\ cmd' = [cmd EXCEPT !.at = k + 1, !.clean = FALSE]
                      ELSE NoFault /\ cmd' = [cmd EXCEPT !.at = k + 1]
  BY DEF Toggle
<1>2. /\ cmd.op \in {"enable", "disable"}
      /\ UNCHANGED <<exist, filter, raw, erst, daemon, at, cur, registered, counted, reported, cut>>
  BY DEF Toggle, procvars
<1>3. k \in 1..Len(ToggleEvents) /\ k >= cmd.at /\ cmd.at \in Nat \ {0}
  <2>1. Len(ToggleEvents) = 20
    BY DEF ToggleEvents
  <2> QED
    BY <2>1 DEF From, ListsOK
<1>4. \A j \in 1..Len(ToggleEvents) : j >= cmd.at /\ j < k => ToggleEvents[j] \notin Modelled
  <2> SUFFICES ASSUME NEW j \in 1..Len(ToggleEvents), j >= cmd.at, j < k, ToggleEvents[j] \in Modelled
               PROVE  FALSE
    OBVIOUS
  <2>1. Len(ToggleEvents) = 20
    BY DEF ToggleEvents
  <2>2. j \in From(ToggleEvents, cmd.at)
    BY <1>3, <2>1 DEF From
  <2>3. k <= j
    BY <1>1, <2>2 DEF IsFirst
  <2> QED
    BY <1>3, <2>1, <2>3
<1> DEFINE e == ToggleEvents[k]
           on == cmd.op = "enable" /\ e \notin cmd.disabled
<1>5. \/ /\ e \in exist /\ NoFault
         /\ set_event' = (IF on THEN set_event \cup {e} ELSE set_event \ {e})
         /\ off' = (IF on THEN off \ {e} ELSE off \cup {e})
         /\ early' = (early \/ (on /\ e = "signal_generate" /\ ~filter))
         /\ cmd' = [cmd EXCEPT !.at = k + 1]
      \/ /\ UNCHANGED <<set_event, off, early>>
         /\ cmd' = [cmd EXCEPT !.at = k + 1, !.clean = FALSE]
      \/ /\ UNCHANGED <<set_event, off, early>> /\ e \notin exist
         /\ cmd' = [cmd EXCEPT !.at = k + 1]
  BY <1>1
<1> HIDE DEF e
<1>6. CASE on
  BY <1>2, <1>3, <1>4, <1>5, <1>6 DEF e
<1>7. CASE ~on
  <2>1. (on /\ e = "signal_generate" /\ ~filter) = FALSE
    BY <1>7
  <2> HIDE DEF on
  <2> QED
    BY <1>2, <1>3, <1>4, <1>5, <1>7, <2>1 DEF e
<1> QED
  BY <1>6, <1>7

-----------------------------------------------------------------------------
(* Each step keeps the invariant.                                          *)

(* The daemon's own steps before and after it registers the events.        *)
LEMMA DaemonStartInv ==
    ASSUME StartInv,
           \/ Start \/ (\E f \in Records : handle_erst_mce_file(f)) \/ ras_erst_mce_handler
           \/ ErstDone \/ get_tracing_dir \/ Registered \/ Stop
    PROVE  StartInv'
<1>0. UNCHANGED <<exist, set_event, filter, raw, cmd, early>>
  BY DEF Start, handle_erst_mce_file, ras_erst_mce_handler, ErstDone, get_tracing_dir, Registered,
         Stop, instance, ghosts
<1>1. ListsOK'
  <2>1. at' \in Nat \ {0}
    BY DEF StartInv, ListsOK, Start, handle_erst_mce_file, ras_erst_mce_handler, ErstDone,
           get_tracing_dir, Registered, Stop
  <2> QED
    BY <1>0, <2>1 DEF StartInv, ListsOK
<1>2. PassedOff' /\ FilterOK'
  BY <1>0 DEF StartInv, PassedOff, FilterOK
<1>3. CountsOK'
  <2>1. CASE Start
    BY <1>0, <2>1 DEF StartInv, CountsOK, Start
  <2>2. CASE (\E f \in Records : handle_erst_mce_file(f)) \/ ras_erst_mce_handler \/ ErstDone \/ get_tracing_dir
    BY <1>0, <2>2 DEF StartInv, CountsOK, handle_erst_mce_file, ras_erst_mce_handler, ErstDone,
       get_tracing_dir, ghosts
  <2>3. CASE Registered
    BY <1>0, <2>3 DEF StartInv, CountsOK, Registered, ghosts
  <2>4. CASE Stop
    BY <1>0, <2>4 DEF StartInv, CountsOK, Stop
  <2> QED
    BY <2>1, <2>2, <2>3, <2>4
<1>4. InHand' /\ ErstNotLost'
  <2>1. CASE Start \/ ErstDone \/ get_tracing_dir \/ Registered
    <3>1. UNCHANGED <<erst, cur, reported, cut>> /\ daemon # "report" /\ daemon' # "report"
      BY <2>1 DEF Start, ErstDone, get_tracing_dir, Registered, ghosts
    <3> QED
      BY <3>1 DEF StartInv, InHand, ErstNotLost
  <2>2. ASSUME NEW f \in Records, handle_erst_mce_file(f) PROVE InHand' /\ ErstNotLost'
    <3>1. daemon = "erst" /\ daemon' = "report" /\ UNCHANGED <<reported, cut>>
      BY <2>2 DEF handle_erst_mce_file, ghosts
    <3>2. cur = NoRecord
      BY <3>1 DEF StartInv, InHand
    <3>3. PICK read, gart \in BOOLEAN :
            /\ \/ read /\ NoFault /\ erst' = IF erst_delete THEN erst \ {f} ELSE erst
               \/ read /\ erst_delete /\ Fault /\ erst' = erst
               \/ ~read /\ Fault /\ erst' = erst
            /\ cur' = [file |-> f, read |-> read, rejected |-> Rejects(gart)]
      BY <2>2 DEF handle_erst_mce_file
    <3>4. ASSUME NEW g \in Records, g \notin erst' PROVE g \in reported \cup cut \/ (cur'.file = g /\ cur'.read)
      <4>1. CASE g \notin erst
        BY <3>2, <4>1 DEF StartInv, ErstNotLost, NoRecord
      <4>2. CASE g \in erst
        BY <3>3, <3>4, <4>2
      <4> QED
        BY <4>1, <4>2
    <3> QED
      BY <3>1, <3>4 DEF InHand, ErstNotLost
  <2>3. CASE ras_erst_mce_handler
    <3>1. /\ daemon = "report" /\ daemon' = "erst" /\ cur' = NoRecord /\ erst' = erst
          /\ reported' = IF cur.read /\ ~cur.rejected THEN reported \cup {cur.file} ELSE reported
          /\ cut' = IF cur.rejected THEN cut \cup {cur.file} ELSE cut
      BY <2>3 DEF ras_erst_mce_handler
    <3> QED
      BY <3>1 DEF StartInv, InHand, ErstNotLost
  <2>4. CASE Stop
    <3>1. /\ daemon' = "down" /\ cur' = NoRecord /\ erst' = erst /\ reported' = reported
          /\ cut' = IF daemon = "report" /\ cur.file \notin erst THEN cut \cup {cur.file} ELSE cut
      BY <2>4 DEF Stop
    <3>2. InHand'
      BY <3>1 DEF InHand
    <3>3. ASSUME NEW g \in Records, g \notin erst PROVE g \in reported \cup cut'
      <4>1. CASE daemon = "report"
        BY <3>1, <3>3, <4>1 DEF StartInv, ErstNotLost
      <4>2. CASE daemon # "report"
        <5>1. cur = NoRecord
          BY <4>2 DEF StartInv, InHand
        <5>2. ~NoRecord.read
          BY DEF NoRecord
        <5> QED
          BY <3>1, <3>3, <4>2, <5>1, <5>2 DEF StartInv, ErstNotLost
      <4> QED
        BY <4>1, <4>2
    <3> QED
      BY <3>1, <3>2, <3>3 DEF ErstNotLost
  <2> QED
    BY <2>1, <2>2, <2>3, <2>4
<1> QED
  BY <1>1, <1>2, <1>3, <1>4 DEF StartInv

(* Registering an event, which may switch it on.                           *)
LEMMA RegisterStartInv ==
    ASSUME StartInv, Register
    PROVE  StartInv'
<1>1. PICK k \in 1..Len(HandlerEvents) :
              /\ at' = k + 1 /\ daemon = "register"
              /\ UNCHANGED <<exist, raw, erst, daemon, cur, reported, cut, early>>
              /\ registered \subseteq registered'
              /\ \/ /\ UNCHANGED <<set_event, cmd, counted>>
                    /\ filter' = filter \/ filter' = TRUE
                 \/ /\ HandlerEvents[k] \in exist /\ set_event' = set_event \cup {HandlerEvents[k]}
                    /\ cmd' = Tainted /\ HandlerEvents[k] \in registered'
                    /\ counted' \subseteq counted \cup {HandlerEvents[k]}
                    /\ HandlerEvents[k] = "signal_generate" => filter' = TRUE
                    /\ HandlerEvents[k] # "signal_generate" => filter' = filter
              /\ off' = off \ (set_event' \ set_event)
  BY RegisterStep DEF StartInv
<1> DEFINE e == HandlerEvents[k]
<1>2. e = "net_dev_xmit_timeout" \/ Toggled(e)
  BY ListsAgree DEF Toggled
<1>3. at' \in Nat \ {0}
  <2>1. Len(HandlerEvents) = 21
    BY DEF HandlerEvents
  <2> QED
    BY <1>1, <2>1
<1> HIDE DEF e
<1>4. ListsOK'
  <2>1. cmd' \in [op : {"none", "enable", "disable", "disabled"}, at : Nat \ {0},
                disabled : Disables \cup {{}}, clean : BOOLEAN]
    BY <1>1 DEF StartInv, ListsOK, Tainted
  <2>2. exist' \subseteq Modelled /\ set_event' \subseteq exist'
    BY <1>1 DEF StartInv, ListsOK
  <2>3. \A d \in set_event' : d = "net_dev_xmit_timeout" \/ Toggled(d)
    BY <1>1, <1>2 DEF StartInv, ListsOK, e
  <2> QED
    BY <1>3, <2>1, <2>2, <2>3 DEF ListsOK, Toggled
<1>5. PassedOff'
  <2>1. CASE UNCHANGED <<set_event, cmd>>
    BY <2>1 DEF StartInv, PassedOff
  <2>2. CASE cmd' = Tainted
    <3>1. cmd'.clean = FALSE
      BY <2>2 DEF Tainted, StartInv, ListsOK
    <3> QED
      BY <3>1 DEF PassedOff
  <2> QED
    BY <1>1, <2>1, <2>2
<1>6. CountsOK'
  BY <1>1 DEF StartInv, CountsOK, e
<1>7. FilterOK'
  <2>0. /\ UNCHANGED <<raw, early>>
        /\ \/ set_event' = set_event /\ (filter' = filter \/ filter' = TRUE)
           \/ set_event' = set_event \cup {e} /\ e = "signal_generate" /\ filter' = TRUE
           \/ set_event' = set_event \cup {e} /\ e # "signal_generate" /\ filter' = filter
    BY <1>1 DEF e
  <2>1. "signal_generate" \in set_event' /\ ~filter' => "signal_generate" \in set_event /\ ~filter
    BY <2>0
  <2> QED
    BY <2>0, <2>1 DEF StartInv, FilterOK
<1>8. InHand' /\ ErstNotLost'
  BY <1>1 DEF StartInv, InHand, ErstNotLost
<1> QED
  BY <1>4, <1>5, <1>6, <1>7, <1>8 DEF StartInv

(* Switching an event by a command.                                        *)
LEMMA ToggleStartInv ==
    ASSUME StartInv, Toggle
    PROVE  StartInv'
<1>1. PICK k \in 1..Len(ToggleEvents) :
              /\ cmd.op \in {"enable", "disable"} /\ k >= cmd.at
              /\ \A j \in 1..Len(ToggleEvents) :
                     j >= cmd.at /\ j < k => ToggleEvents[j] \notin Modelled
              /\ UNCHANGED <<exist, filter, raw, erst, daemon, at, cur, registered, counted, reported, cut>>
              /\ \/ /\ ToggleEvents[k] \in exist /\ cmd.op = "enable"
                    /\ set_event' = set_event \cup {ToggleEvents[k]} /\ off' = off \ {ToggleEvents[k]}
                    /\ early' = (early \/ (ToggleEvents[k] = "signal_generate" /\ ~filter))
                    /\ cmd' = [cmd EXCEPT !.at = k + 1]
                 \/ /\ set_event' = set_event \ {ToggleEvents[k]} /\ off' = off \cup {ToggleEvents[k]}
                    /\ early' = (early \/ FALSE)
                    /\ cmd' = [cmd EXCEPT !.at = k + 1]
                 \/ /\ UNCHANGED <<set_event, off, early>>
                    /\ cmd' = [cmd EXCEPT !.at = k + 1, !.clean = FALSE]
                 \/ /\ UNCHANGED <<set_event, off, early>> /\ ToggleEvents[k] \notin exist
                    /\ cmd' = [cmd EXCEPT !.at = k + 1]
  BY ToggleStep DEF StartInv
<1>2. /\ cmd \in [op : {"none", "enable", "disable", "disabled"}, at : Nat \ {0},
                  disabled : Disables \cup {{}}, clean : BOOLEAN]
      /\ exist \subseteq Modelled /\ set_event \subseteq exist
  BY DEF StartInv, ListsOK
<1>3. Len(ToggleEvents) = 20
  BY DEF ToggleEvents
<1>4. Toggled(ToggleEvents[k])
  BY DEF Toggled
<1>5. ListsOK'
  <2>1. cmd' \in [op : {"none", "enable", "disable", "disabled"}, at : Nat \ {0},
                disabled : Disables \cup {{}}, clean : BOOLEAN]
    <3>1. k + 1 \in Nat \ {0}
      BY <1>3
    <3>2. cmd' = [cmd EXCEPT !.at = k + 1] \/ cmd' = [cmd EXCEPT !.at = k + 1, !.clean = FALSE]
      BY <1>1
    <3> QED
      BY <1>2, <3>1, <3>2
  <2>2. set_event' \subseteq exist'
    BY <1>1, <1>2
  <2>3. \A d \in set_event' : d = "net_dev_xmit_timeout" \/ Toggled(d)
    BY <1>1, <1>4 DEF StartInv, ListsOK
  <2> QED
    BY <1>1, <2>1, <2>2, <2>3 DEF StartInv, ListsOK, Toggled
<1>6. PassedOff'
  <2> SUFFICES ASSUME cmd'.op \in {"disable", "disabled"}, cmd'.clean,
                      NEW j \in 1..Len(ToggleEvents), j < cmd'.at \/ cmd'.op = "disabled"
               PROVE  ToggleEvents[j] \notin set_event'
    BY DEF PassedOff
  <2>1. /\ cmd'.op = cmd.op /\ cmd'.at = k + 1 /\ cmd.op = "disable" /\ cmd.clean
        /\ j < k + 1
    BY <1>1, <1>2
  <2>2. /\ set_event' \subseteq set_event
        /\ ToggleEvents[k] \notin set_event'
    BY <1>1, <1>2, <2>1
  <2>3. CASE j = k
    BY <2>2, <2>3
  <2>4. CASE j < cmd.at
    BY <2>1, <2>2, <2>4 DEF StartInv, PassedOff
  <2>5. CASE j >= cmd.at /\ j < k
    BY <1>1, <1>2, <2>2, <2>5
  <2> QED
    BY <1>2, <1>3, <2>1, <2>3, <2>4, <2>5
<1>7. CountsOK'
  BY <1>1 DEF StartInv, CountsOK
<1>8. FilterOK'
  <2> DEFINE e == ToggleEvents[k]
  <2>0. /\ UNCHANGED <<raw, filter>>
        /\ \/ /\ set_event' = set_event \cup {e}
              /\ early' = (early \/ (e = "signal_generate" /\ ~filter))
           \/ set_event' \subseteq set_event /\ early' = (early \/ FALSE)
           \/ set_event' \subseteq set_event /\ early' = early
    BY <1>1
  <2> HIDE DEF e
  <2>1. early => early'
    BY <2>0
  <2>2. "signal_generate" \in set_event' /\ "signal_generate" \notin set_event /\ ~filter => early'
    BY <2>0
  <2> QED
    BY <2>0, <2>1, <2>2 DEF StartInv, FilterOK
<1>9. InHand' /\ ErstNotLost'
  BY <1>1 DEF StartInv, InHand, ErstNotLost
<1> QED
  BY <1>5, <1>6, <1>7, <1>8, <1>9 DEF StartInv

(* The rest of a command, and what the kernel traces.                      *)
LEMMA CommandStartInv ==
    ASSUME StartInv, Command \/ CommandDone \/ OtherSignal
    PROVE  StartInv'
<1>1. /\ cmd \in [op : {"none", "enable", "disable", "disabled"}, at : Nat \ {0},
                  disabled : Disables \cup {{}}, clean : BOOLEAN]
      /\ exist \subseteq Modelled /\ set_event \subseteq exist
  BY DEF StartInv, ListsOK
<1>2. /\ UNCHANGED <<exist, set_event, filter, erst, procvars, ghosts>>
      /\ raw' = raw \/ ("signal_generate" \in set_event /\ ~filter)
  BY DEF Command, CommandDone, OtherSignal, instance
<1>3. CountsOK' /\ InHand' /\ ErstNotLost' /\ FilterOK'
  BY <1>2 DEF StartInv, CountsOK, InHand, ErstNotLost, FilterOK, procvars, ghosts
<1>4. cmd' \in [op : {"none", "enable", "disable", "disabled"}, at : Nat \ {0},
                disabled : Disables \cup {{}}, clean : BOOLEAN]
  <2>1. CASE Command
    <3>1. CASE cmd' = cmd
      BY <1>1, <3>1
    <3>2. CASE cmd' # cmd
      <4>1. PICK op \in {"enable", "disable"}, d \in Disables :
               cmd' = [op |-> op, at |-> 1, disabled |-> d, clean |-> TRUE]
        BY <2>1, <3>2 DEF Command
      <4>2. 1 \in Nat \ {0}
        OBVIOUS
      <4> QED
        BY <4>1, <4>2
    <3> QED
      BY <3>1, <3>2
  <2>2. CASE CommandDone
    BY <1>1, <2>2 DEF CommandDone, NoCommand
  <2>3. CASE OtherSignal
    BY <1>1, <2>3 DEF OtherSignal
  <2> QED
    BY <2>1, <2>2, <2>3
<1>5. ListsOK'
  BY <1>2, <1>4 DEF StartInv, ListsOK, procvars, Toggled
<1>6. PassedOff'
  <2> SUFFICES ASSUME cmd'.op \in {"disable", "disabled"}, cmd'.clean,
                      NEW j \in 1..Len(ToggleEvents), j < cmd'.at \/ cmd'.op = "disabled"
               PROVE  ToggleEvents[j] \notin set_event'
    BY DEF PassedOff
  <2>0. Len(ToggleEvents) = 20
    BY DEF ToggleEvents
  <2>1. CASE cmd' = cmd
    BY <1>2, <2>1 DEF StartInv, PassedOff
  <2>2. CASE Command /\ cmd' # cmd
    <3>1. cmd'.at = 1 /\ cmd'.op # "disabled"
      BY <2>2 DEF Command
    <3> QED
      BY <2>0, <3>1
  <2>3. CASE CommandDone
    <3>1. /\ cmd.op = "disable" /\ cmd.clean /\ From(ToggleEvents, cmd.at) = {}
      BY <1>1, <2>3 DEF CommandDone, NoCommand
    <3>2. CASE j < cmd.at
      BY <1>2, <3>1, <3>2 DEF StartInv, PassedOff
    <3>3. CASE j >= cmd.at
      <4>1. j \in cmd.at..Len(ToggleEvents)
        BY <1>1, <2>0, <3>3
      <4>2. ToggleEvents[j] \notin Modelled
        BY <3>1, <4>1 DEF From
      <4> QED
        BY <1>1, <1>2, <4>2
    <3> QED
      BY <1>1, <2>0, <3>2, <3>3
  <2> QED
    BY <2>1, <2>2, <2>3 DEF OtherSignal
<1> QED
  BY <1>3, <1>5, <1>6 DEF StartInv

(* StartInv is an invariant of the starts, the stops and the commands.     *)
LEMMA StartInvHolds == StartSpec => []StartInv
<1>1. StartInv /\ [StartNext]_<<vars, startvars>> => StartInv'
  <2> SUFFICES ASSUME StartInv, [StartNext]_<<vars, startvars>> PROVE StartInv'
    OBVIOUS
  <2>1. CASE UNCHANGED startvars
    <3>1. UNCHANGED <<at, cmd, exist, set_event, counted, registered, off, daemon, filter, early,
                      raw, cur, erst, reported, cut>>
      BY <2>1 DEF startvars, instance, procvars, ghosts
    <3> QED
      BY <3>1 DEF StartInv, ListsOK, Toggled, PassedOff, CountsOK, FilterOK, InHand, ErstNotLost
  <2> QED
    BY <2>1, StartSteps, DaemonStartInv, RegisterStartInv, ToggleStartInv, CommandStartInv
<1> QED
  BY <1>1, InitStartInv, PTL DEF StartSpec

-----------------------------------------------------------------------------
(* The theorems about starting and stopping.                               *)

(* A daemon that listens has asked for every event it counts, whatever     *)
(* failed on the way, and nobody but a command switched one off again.     *)
THEOREM ListeningDaemonHears == StartSpec => []CountedIsHeard
<1>1. StartInv => CountedIsHeard
  BY DEF StartInv, CountsOK, CountedIsHeard
<1> QED
  BY <1>1, StartInvHolds, PTL

(* `rasdaemon --disable' leaves none of the 20 events on, whichever daemon *)
(* or command switched them on before.                                     *)
THEOREM DisableSwitchesOff == StartSpec => []DisableStops
<1>1. StartInv => DisableStops
  <2> SUFFICES ASSUME StartInv, cmd.op = "disabled", cmd.clean, NEW e \in set_event
               PROVE  e = "net_dev_xmit_timeout"
    BY DEF DisableStops
  <2>1. \A j \in 1..Len(ToggleEvents) : ToggleEvents[j] # e
    BY DEF StartInv, PassedOff
  <2> QED
    BY <2>1 DEF StartInv, ListsOK, Toggled
<1> QED
  BY <1>1, StartInvHolds, PTL

(* No order of starts, kills, failures and commands lets an unfiltered     *)
(* signal into the buffers before `--enable' does.                         *)
THEOREM OnlyEnableLetsSignalsIn == StartSpec => []SignalsFiltered
<1>1. StartInv => SignalsFiltered
  BY DEF StartInv, FilterOK, SignalsFiltered
<1> QED
  BY <1>1, StartInvHolds, PTL

(* No record of a machine check leaves ERST without a report, a rejection  *)
(* by its parser or a kill in between.                                     *)
THEOREM NoRecordIsLost == StartSpec => []ErstNotLost
<1>1. StartInv => ErstNotLost
  BY DEF StartInv
<1> QED
  BY <1>1, StartInvHolds, PTL

-----------------------------------------------------------------------------
(* The decoder of a machine check.                                         *)

(* No family and model of Intel is taken for a CPU of another vendor, and  *)
(* only the families before 6 are taken for none.                          *)
LEMMA IntelIsIntel ==
    ASSUME NEW family \in Int, NEW model
    PROVE  /\ select_intel_cputype(family, model)
                 \notin {"K8", "AMD_SMCA", "DHYANA", "ZHAOXIN", "ZHAOXIN_KH50000"}
           /\ select_intel_cputype(family, model) = "GENERIC" <=> family < 6
<1> DEFINE known == {r \in Family6 : model \in r.models}
           others == {"GENERIC", "K8", "AMD_SMCA", "DHYANA", "ZHAOXIN", "ZHAOXIN_KH50000"}
           t == (CHOOSE r \in known : TRUE).type
           type == select_intel_cputype(family, model)
<1>1. \A r \in Family6 : r.type \notin others
  BY DEF Family6
<1>2. known # {} => t \notin others
  BY <1>1
<1> HIDE DEF known, t
<1>3. CASE family < 6
  <2>1. type = "GENERIC"
    BY <1>3 DEF select_intel_cputype
  <2> QED
    BY <1>3, <2>1
<1>4. CASE ~(family < 6)
  <2>1. family # 6 => family > 6
    BY <1>4
  <2>2. \/ type \in {"TULSA", "P4", "P6OLD", "INTEL", "DIAMONDRAPIDS"}
        \/ known # {} /\ type = t
    BY <2>1 DEF select_intel_cputype, known, t
  <2>3. type \notin others
    <3> HIDE DEF type
    <3> QED
      BY <1>2, <2>2
  <2> QED
    BY <1>4, <2>3
<1> QED
  BY <1>3, <1>4

(* The types that detect_cpu gives to each vendor.                         *)
LEMMA DetectedTypes ==
    ASSUME NEW c
    PROVE  LET d == detect_cpu(c)
           IN  /\ d.rc = "ok" /\ c.vendor = "AuthenticAMD" =>
                      d.cputype = IF c.smca THEN "AMD_SMCA" ELSE IF c.family = 15 THEN "K8" ELSE "GENERIC"
               /\ d.rc = "ok" /\ c.vendor = "HygonGenuine" =>
                      d.cputype = IF c.family = 24 THEN "DHYANA" ELSE "GENERIC"
               /\ d.rc = "ok" /\ c.vendor = "GenuineIntel" =>
                      d.cputype = select_intel_cputype(c.family, c.model)
               /\ d.rc = "ok" /\ c.vendor \in {"CentaurHauls", "  Shanghai  "} =>
                      d.cputype \in {"ZHAOXIN", "ZHAOXIN_KH50000"}
               /\ d.rc = "ok" => c.vendor \in {"AuthenticAMD", "HygonGenuine", "GenuineIntel",
                                              "CentaurHauls", "  Shanghai  "}
               /\ c.seen = "all" /\ c.vendor = "AuthenticAMD" /\ c.smca =>
                      d.rc = "ok" /\ d.cputype = "AMD_SMCA"
<1>1. CASE c.seen \in {"none", "some"}
  BY <1>1 DEF detect_cpu
<1>2. CASE c.seen = "all"
  <2>1. CASE c.vendor = "AuthenticAMD"
    <3>1. detect_cpu(c) = AmdType(c)
      BY <1>2, <2>1 DEF detect_cpu
    <3> QED
      BY <1>2, <2>1, <3>1 DEF AmdType
  <2>2. CASE c.vendor = "HygonGenuine"
    <3>1. detect_cpu(c) = [rc |-> "ok", cputype |-> IF c.family = 24 THEN "DHYANA" ELSE "GENERIC"]
      BY <1>2, <2>2 DEF detect_cpu
    <3> QED
      BY <1>2, <2>2, <3>1
  <2>3. CASE c.vendor = "GenuineIntel"
    <3>1. detect_cpu(c) = [rc |-> "ok", cputype |-> select_intel_cputype(c.family, c.model)]
      BY <1>2, <2>3 DEF detect_cpu
    <3> QED
      BY <1>2, <2>3, <3>1
  <2>4. CASE c.vendor \in {"CentaurHauls", "  Shanghai  "}
    <3>1. detect_cpu(c) = [rc |-> "ok", cputype |-> IF c.family = 7 /\ c.model = 123
                                                   THEN "ZHAOXIN_KH50000" ELSE "ZHAOXIN"]
      BY <1>2, <2>4 DEF detect_cpu
    <3>2. c.vendor # "GenuineIntel" /\ c.vendor # "AuthenticAMD" /\ c.vendor # "HygonGenuine"
      BY <2>4
    <3>3. detect_cpu(c).cputype \in {"ZHAOXIN", "ZHAOXIN_KH50000"}
      BY <3>1
    <3> QED
      BY <2>4, <3>2, <3>3, Zenon
  <2>5. CASE c.vendor \notin {"AuthenticAMD", "HygonGenuine", "GenuineIntel", "CentaurHauls", "  Shanghai  "}
    <3>1. detect_cpu(c) = [rc |-> "EINVAL", cputype |-> "GENERIC"]
      BY <1>2, <2>5 DEF detect_cpu
    <3>2. /\ c.vendor # "GenuineIntel" /\ c.vendor # "AuthenticAMD" /\ c.vendor # "HygonGenuine"
          /\ c.vendor \notin {"CentaurHauls", "  Shanghai  "}
      BY <2>5
    <3>3. detect_cpu(c).rc # "ok"
      BY <3>1
    <3> QED
      BY <3>2, <3>3, Zenon
  <2> QED
    BY <2>1, <2>2, <2>3, <2>4, <2>5
<1>3. CASE c.seen \notin {"none", "some", "all"}
  <2>1. detect_cpu(c) = [rc |-> "EINVAL", cputype |-> "GENERIC"]
    BY <1>3 DEF detect_cpu
  <2> QED
    BY <1>3, <2>1
<1> QED
  BY <1>1, <1>2, <1>3

(* The two switches over the CPU type.                                     *)
LEMMA Parsers ==
    ASSUME NEW t
    PROVE  /\ event_parser(t) = "parse_intel_event" =>
                  t \notin {"GENERIC", "K8", "AMD_SMCA", "DHYANA", "ZHAOXIN", "ZHAOXIN_KH50000"}
           /\ event_parser(t) \in {"parse_amd_k8_event", "parse_amd_smca_event"} =>
                  t \in {"K8", "AMD_SMCA", "DHYANA"}
           /\ event_parser(t) = "parse_zhaoxin_event" => t \in {"ZHAOXIN", "ZHAOXIN_KH50000"}
           /\ event_parser(t) = "none" <=> t = "GENERIC"
           /\ event_parser(t) # "parse_zhaoxin_event" => erst_parser(t) = event_parser(t)
           /\ t = "AMD_SMCA" => event_parser(t) = "parse_amd_smca_event"
           /\ t \in ImcLogTypes => parse_intel_event(t) # "none"
<1>1. CASE t \in {"GENERIC", "K8", "AMD_SMCA", "DHYANA", "ZHAOXIN", "ZHAOXIN_KH50000"}
  BY <1>1 DEF event_parser, erst_parser, ImcLogTypes
<1>2. CASE t \notin {"GENERIC", "K8", "AMD_SMCA", "DHYANA", "ZHAOXIN", "ZHAOXIN_KH50000"}
  <2>1. event_parser(t) = "parse_intel_event" /\ erst_parser(t) = "parse_intel_event"
    BY <1>2 DEF event_parser, erst_parser
  <2>2. t \in ImcLogTypes => parse_intel_event(t) # "none"
    <3>1. /\ parse_intel_event("SANDY_BRIDGE_EP") = "snb_decode_model"
          /\ parse_intel_event("IVY_BRIDGE_EPEX") = "ivb_decode_model"
          /\ parse_intel_event("HASWELL_EPEX") = "hsw_decode_model"
          /\ parse_intel_event("KNIGHTS_LANDING") = "knl_decode_model"
          /\ parse_intel_event("KNIGHTS_MILL") = "knl_decode_model"
      BY DEF parse_intel_event
    <3> QED
      BY <3>1 DEF ImcLogTypes
  <2> QED
    BY <1>2, <2>1, <2>2
<1> QED
  BY <1>1, <1>2

(* Whatever /proc/cpuinfo says, a CPU that is accepted gets a parser of    *)
(* its own vendor, unless it is one of the three sorts that have none; one *)
(* with SMCA gets the SMCA parser, and the extended log is only switched   *)
(* on where a decoder reads it.                                            *)
THEOREM EveryCpuIsDecoded == StartSpec => []CpuTypeDecoded
<1>1. cpu.family \in Int => CpuTypeDecoded
  <2> SUFFICES ASSUME cpu.family \in Int PROVE CpuTypeDecoded
    OBVIOUS
  <2> DEFINE d == detect_cpu(cpu)
             parser == event_parser(d.cputype)
  <2> HIDE DEF d, parser
  <2>1. /\ d.rc = "ok" /\ cpu.vendor = "AuthenticAMD" =>
               d.cputype = IF cpu.smca THEN "AMD_SMCA" ELSE IF cpu.family = 15 THEN "K8" ELSE "GENERIC"
        /\ d.rc = "ok" /\ cpu.vendor = "HygonGenuine" =>
               d.cputype = IF cpu.family = 24 THEN "DHYANA" ELSE "GENERIC"
        /\ d.rc = "ok" /\ cpu.vendor = "GenuineIntel" =>
               /\ d.cputype \notin {"K8", "AMD_SMCA", "DHYANA", "ZHAOXIN", "ZHAOXIN_KH50000"}
               /\ d.cputype = "GENERIC" <=> cpu.family < 6
        /\ d.rc = "ok" /\ cpu.vendor \in {"CentaurHauls", "  Shanghai  "} =>
               d.cputype \in {"ZHAOXIN", "ZHAOXIN_KH50000"}
        /\ d.rc = "ok" => cpu.vendor \in {"AuthenticAMD", "HygonGenuine", "GenuineIntel",
                                         "CentaurHauls", "  Shanghai  "}
        /\ cpu.seen = "all" /\ cpu.vendor = "AuthenticAMD" /\ cpu.smca =>
               d.rc = "ok" /\ d.cputype = "AMD_SMCA"
    BY DetectedTypes, IntelIsIntel DEF d
  <2>2. /\ parser = "parse_intel_event" =>
               d.cputype \notin {"GENERIC", "K8", "AMD_SMCA", "DHYANA", "ZHAOXIN", "ZHAOXIN_KH50000"}
        /\ parser \in {"parse_amd_k8_event", "parse_amd_smca_event"} =>
               d.cputype \in {"K8", "AMD_SMCA", "DHYANA"}
        /\ parser = "parse_zhaoxin_event" => d.cputype \in {"ZHAOXIN", "ZHAOXIN_KH50000"}
        /\ parser = "none" <=> d.cputype = "GENERIC"
        /\ parser # "parse_zhaoxin_event" => erst_parser(d.cputype) = parser
        /\ d.cputype = "AMD_SMCA" => parser = "parse_amd_smca_event"
        /\ d.cputype \in ImcLogTypes => parse_intel_event(d.cputype) # "none"
    BY Parsers DEF parser
  <2>3. ASSUME d.rc = "ok"
        PROVE  /\ parser = "none" <=> WithoutParser(cpu)
               /\ parser = "parse_intel_event" => cpu.vendor = "GenuineIntel"
               /\ parser \in {"parse_amd_k8_event", "parse_amd_smca_event"} =>
                      cpu.vendor \in {"AuthenticAMD", "HygonGenuine"}
               /\ parser = "parse_zhaoxin_event" => cpu.vendor \in {"CentaurHauls", "  Shanghai  "}
    <3>1. CASE cpu.vendor = "AuthenticAMD"
      BY <2>1, <2>2, <2>3, <3>1 DEF WithoutParser
    <3>2. CASE cpu.vendor = "HygonGenuine"
      BY <2>1, <2>2, <2>3, <3>2 DEF WithoutParser
    <3>3. CASE cpu.vendor = "GenuineIntel"
      BY <2>1, <2>2, <2>3, <3>3 DEF WithoutParser
    <3>4. CASE cpu.vendor \in {"CentaurHauls", "  Shanghai  "}
      BY <2>1, <2>2, <2>3, <3>4 DEF WithoutParser
    <3> QED
      BY <2>1, <2>3, <3>1, <3>2, <3>3, <3>4
  <2> QED
    BY <2>1, <2>2, <2>3 DEF CpuTypeDecoded, d, parser
<1> DEFINE FamilyOK == cpu.family \in Int
<1>2. StartInit => FamilyOK
  BY CpuAssumption DEF StartInit
<1>3. FamilyOK /\ [StartNext]_<<vars, startvars>> => FamilyOK'
  <2> SUFFICES ASSUME FamilyOK, [StartNext]_<<vars, startvars>>
               PROVE  FamilyOK'
    OBVIOUS
  <2>1. cpu' = cpu
    BY DEF StartNext, startvars, Start, handle_erst_mce_file, ras_erst_mce_handler, ErstDone,
       get_tracing_dir, Register, Registered, Stop, Command, Toggle, CommandDone, OtherSignal
  <2> QED
    BY <2>1
<1>4. FamilyOK => CpuTypeDecoded
  BY <1>1
<1> QED
  <2> HIDE DEF FamilyOK
  <2> QED
    BY <1>2, <1>3, <1>4, PTL DEF StartSpec

-----------------------------------------------------------------------------
(* The settings of the page and row policies.                              *)

\* A setting is a number with a unit.
EnvOK ==
    /\ kind \in {"cycle", "threshold"}
    /\ env \in [set : BOOLEAN, value : Nat, unit : Letters]

(* What is known of remainders and quotients.                              *)
LEMMA Division ==
    ASSUME NEW a \in Nat, NEW n \in Nat \ {0}
    PROVE  /\ a % n \in Nat /\ a % n < n /\ a % n <= a
           /\ a < n => a % n = a
           /\ a \div n \in Nat /\ n * (a \div n) <= a
OBVIOUS

(* A product that passes the check of parse_isolation_env did not wrap.    *)
LEMMA NoWrap ==
    ASSUME NEW v \in Nat \ {0}, NEW factor \in {1, 24, 60, 1000}, NEW last \in BOOLEAN,
           NEW errno \in {0, ERANGE}, ~Overflow(v, factor, last, errno)
    PROVE  /\ (Saturate(v) * factor) % ULONG = v * factor
           /\ v * factor # 0
<1> DEFINE tmp == Saturate(v)
           value == (tmp * factor) % ULONG
<1>1. tmp \in Nat \ {0} /\ tmp < ULONG /\ (v < ULONG => tmp = v) /\ (v >= ULONG => tmp = ULONG - 1)
  BY EnvAssumption DEF Saturate
<1>2. value \div tmp = factor /\ (factor = 1 => v < ULONG)
  BY <1>1, EnvAssumption DEF Overflow
<1>3. /\ ULONG \in Nat \ {0, 1} /\ factor \in Nat \ {0} /\ tmp * factor \in Nat
  BY <1>1, EnvAssumption
<1> HIDE DEF tmp
<1>4. value \in Nat /\ value < ULONG /\ value <= tmp * factor
  BY <1>3, Division
<1> HIDE DEF value
<1>5. tmp * (value \div tmp) <= value
  BY <1>1, <1>4, Division
<1>6. value = tmp * factor
  BY <1>2, <1>3, <1>4, <1>5
<1>7. v < ULONG
  BY <1>1, <1>2, <1>3, <1>4, <1>6
<1> QED
  BY <1>1, <1>6, <1>7 DEF tmp, value

\* The setting as read, exact when it is not flagged.
SettingInv == EnvOK /\ FlaggedOrExact

(* A threshold or a cycle that is used without a warning is the exact      *)
(* product of its number and a factor, for every width of unsigned long,   *)
(* every number and whatever errno was left.                               *)
THEOREM SettingsAreExactOrFlagged == StartSpec => []FlaggedOrExact
<1>1. StartInit => SettingInv
  <2> SUFFICES ASSUME StartInit PROVE SettingInv
    OBVIOUS
  <2>1. EnvOK
    <3>1. CASE Unset
      BY <3>1 DEF Unset, EnvOK, Letters
    <3>2. CASE Init
      BY <3>2, EnvAssumption DEF Init, EnvOK
    <3> QED
      BY <3>1, <3>2 DEF StartInit
  <2>2. FlaggedOrExact
    BY DEF StartInit, Unset, Init, FlaggedOrExact
  <2> QED
    BY <2>1, <2>2 DEF SettingInv
<1>2. SettingInv /\ [StartNext]_<<vars, startvars>> => SettingInv'
  <2> SUFFICES ASSUME SettingInv, [StartNext]_<<vars, startvars>> PROVE SettingInv'
    OBVIOUS
  <2>1. CASE UNCHANGED vars
    BY <2>1 DEF vars, SettingInv, EnvOK, FlaggedOrExact, Chosen, Valid
  <2>2. CASE parse_isolation_env
    <3> DEFINE factor == Units(kind)[Chosen.unit]
               last == IF Valid THEN env.unit = "none" ELSE kind = "threshold"
    <3>1. EnvOK' /\ kind' = kind /\ Chosen' = Chosen
      BY <2>2 DEF parse_isolation_env, SettingInv, EnvOK, Chosen, Valid
    <3>2. Chosen.value \in Nat \ {0}
      BY DEF SettingInv, EnvOK, Chosen, Valid, Default
    <3>3. Chosen.unit \in DOMAIN Units(kind)
      BY DEF SettingInv, EnvOK, Chosen, Valid, Default, Units
    <3>4. factor \in {1, 24, 60, 1000}
      BY <3>3 DEF Units
    <3>5. last \in BOOLEAN
      OBVIOUS
    <3>6. PICK errno \in {0, ERANGE} : overflow' = Overflow(Chosen.value, factor, last, errno)
      BY <2>2 DEF parse_isolation_env
    <3>7. val' = (Saturate(Chosen.value) * factor) % ULONG
      BY <2>2 DEF parse_isolation_env
    <3> HIDE DEF last
    <3>8. ~overflow' => val' = Chosen.value * factor /\ Chosen.value * factor # 0
      <4> HIDE DEF factor
      <4> QED
        BY <3>2, <3>4, <3>5, <3>6, <3>7, NoWrap
    <3>9. FlaggedOrExact'
      BY <3>1, <3>3, <3>8 DEF FlaggedOrExact
    <3> QED
      BY <3>1, <3>9 DEF SettingInv
  <2> QED
    BY <2>1, <2>2 DEF StartNext, startvars
<1>3. SettingInv => FlaggedOrExact
  BY DEF SettingInv
<1> QED
  BY <1>1, <1>2, <1>3, PTL DEF StartSpec
=============================================================================
