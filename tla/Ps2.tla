--------------------------------- MODULE Ps2 ---------------------------------
(***************************************************************************)
(* The PS/2 keyboard (mods/x86/ps2.c, core/input.c): keys become bytes,    *)
(* bytes go through the controller and an interrupt into a ring, which the *)
(* shell's loop polls for events.  BIOS calls come in between, with        *)
(* interrupt vectors and a keyboard handler of their own.                  *)
(*                                                                         *)
(* A byte is named by its place in what the keyboard sends.                *)
(***************************************************************************)
EXTENDS Pic, Sequences, SequencesExt, FiniteSetsExt

CONSTANTS
  Cap,          \* CAP, 512
  PollLimit,    \* 1000
  Keys,         \* the keys in use, names of Plain's
  MaxTyped,     \* bound on the keys typed
  MayFail       \* whether loomAlloc may fail

E0 == "E0"
None == "none"

(* The two tables, for keys of either kind.                                *)
Plain == [shift |-> "LEFTSHIFT", alt |-> "LEFTALT", caps |-> "CAPSLOCK", up |-> "NP8"]
Extended == [shift |-> None, alt |-> "RIGHTALT", caps |-> None, up |-> "UP"]

Slots == 0..(Cap - 1)
Typings == [key : Keys, ext : BOOLEAN, press : BOOLEAN]

ASSUME Ps2Assumption ==
  /\ Cap \in Nat /\ Cap >= 2
  /\ PollLimit \in Nat /\ PollLimit >= 1
  /\ Keys \subseteq DOMAIN Plain
  /\ MaxTyped \in Nat /\ MayFail \in BOOLEAN

VARIABLES
  typed,        \* what was done to the keys
  sent,         \* bytes the keyboard has handed over
  data, full,   \* the keyboard controller: its data port and status bit
  bios,         \* a BIOS call is running
  off,          \* ps2Poll has interrupts off
  module,       \* ps2: "out", "loaded", "nomem" (loaded, no buffer) or "removed"
  panic,
  buf, head, tail, poll, last_key,    \* loom_ps2_keyboard
  mods,         \* of the input source
  taken,        \* the last byte polled
  spoiled,      \* a byte was lost or came twice
  events        \* what was polled, while nothing was spoiled

kbVars == <<buf, head, tail, poll, last_key, mods>>
ghosts == <<taken, spoiled, events>>
vars == <<picVars, typed, sent, data, full, bios, off, module, panic, kbVars, ghosts>>
----------------------------------------------------------------------------
(* What the keyboard sends (external).                                     *)
Scan(a) == [code |-> a.key, press |-> a.press]
Prefix == [code |-> E0, press |-> FALSE]
Bytes(a) == IF a.ext THEN <<Prefix, Scan(a)>> ELSE <<Scan(a)>>
Stream == FlattenSeq([i \in DOMAIN typed |-> Bytes(typed[i])])

Types(a) ==
  /\ Len(typed) < MaxTyped
  /\ typed' = Append(typed, a)
  /\ UNCHANGED <<picVars, sent, data, full, bios, off, module, panic, kbVars, ghosts>>

(* The keyboard controller (external) takes a byte when it has none, and   *)
(* raises IRQ 1.                                                           *)
Receives ==
  /\ ~full /\ sent < Len(Stream)
  /\ sent' = sent + 1 /\ data' = sent + 1 /\ full' = TRUE
  /\ Rise
  /\ UNCHANGED <<typed, bios, off, module, panic, kbVars, ghosts>>
----------------------------------------------------------------------------
(* The ring.                                                               *)
After(i) == (i + 1) % Cap
Ring == [k \in 1..((tail - head + Cap) % Cap) |-> buf[(head + k - 1) % Cap]]

(* A byte read from the data port is the last one when there is no other.  *)
Spoils(lost) == spoiled' = (spoiled \/ lost \/ ~full)

Full(next) == head = next

PutByte_AtHead ==
  /\ buf' = [buf EXCEPT ![head] = data]
  /\ tail' = After(tail)
PutByte ==
  /\ buf' = [buf EXCEPT ![tail] = data]
  /\ tail' = After(tail)

(* ps2Isr, with interrupts off.  The byte is read in any case.             *)
Isr ==
  /\ ~bios /\ ~off /\ ~panic
  /\ Serves("loom") /\ Serve
  /\ full' = FALSE
  /\ IF Full(After(tail)) THEN UNCHANGED <<buf, tail>> ELSE PutByte
  /\ Spoils(Full(After(tail)))
  /\ UNCHANGED <<typed, sent, data, bios, off, module, panic, head, poll, last_key, mods,
                 taken, events>>
----------------------------------------------------------------------------
(* loomInputSourcePoll keeps the modifiers.                                *)
Held == [LEFTSHIFT |-> "leftshift", RIGHTSHIFT |-> "rightshift",
         LEFTALT |-> "leftalt", RIGHTALT |-> "rightalt"]

Mods_KeepsReleased(ms, press, keycode) ==
  CASE keycode = "CAPSLOCK" /\ press ->
         IF "capslock" \in ms THEN ms \ {"capslock"} ELSE ms \cup {"capslock"}
    [] keycode \in DOMAIN Held -> ms \cup {Held[keycode]}
    [] OTHER -> ms
Mods(ms, press, keycode) ==
  CASE keycode = "CAPSLOCK" /\ press ->
         IF "capslock" \in ms THEN ms \ {"capslock"} ELSE ms \cup {"capslock"}
    [] keycode \in DOMAIN Held /\ press -> ms \cup {Held[keycode]}
    [] keycode \in DOMAIN Held /\ ~press -> ms \ {Held[keycode]}
    [] OTHER -> ms

(* What a byte means after last_key.  Two prefixes in a row read behind    *)
(* the end of sc1_e0_to_kc.                                                *)
Keycodes(byte) ==
  CASE last_key = E0 /\ byte.code = E0 -> {None, "beyond"}
    [] last_key = E0 /\ byte.code # E0 -> {Extended[byte.code]}
    [] last_key # E0 /\ byte.code = E0 -> {None}
    [] OTHER -> {Plain[byte.code]}

Yields(byte, keycode) ==
  /\ mods' = IF keycode = None THEN mods ELSE Mods(mods, byte.press, keycode)
  /\ events' = IF keycode = None \/ spoiled THEN events
               ELSE Append(events, [press |-> byte.press, keycode |-> keycode, mods |-> mods'])

(* ps2Poll.  A request that is latched is served before interrupts are off *)
(* but may come while they are.  What follows loomIrqRestore has only      *)
(* last_key and mods, which no interrupt touches.                          *)
IrqSave ==
  /\ module = "loaded" /\ ~bios /\ ~off /\ ~panic
  /\ ~Serves("loom")
  /\ off' = TRUE
  /\ UNCHANGED <<picVars, typed, sent, data, full, bios, module, panic, kbVars, ghosts>>

Poll ==
  /\ off /\ head # tail
  /\ off' = FALSE
  /\ poll' = 0
  /\ head' = After(head)
  /\ taken' = buf[head]
  /\ LET byte == Stream[buf[head]] IN
     /\ last_key' = IF last_key = E0 THEN None ELSE byte.code
     /\ \E keycode \in Keycodes(byte) : Yields(byte, keycode)
  /\ UNCHANGED <<picVars, typed, sent, data, full, bios, module, panic, buf, tail, spoiled>>

(* The fall-back of a poll that finds nothing, every PollLimit times.  A   *)
(* request that is latched already may be served with nothing to read.     *)
Fallback_Never == FALSE /\ full
Fallback == poll + 1 >= PollLimit /\ full

PollNothing ==
  /\ off /\ head = tail
  /\ off' = FALSE
  /\ poll' = (poll + 1) % PollLimit
  /\ IF Fallback
     THEN /\ PutByte /\ full' = FALSE
          /\ irr' \in {irr, FALSE}
     ELSE UNCHANGED <<buf, tail, full, irr>>
  /\ UNCHANGED <<masked, masks, bios_masks, offsets, typed, sent, data, bios, module,
                 panic, head, last_key, mods, ghosts>>
----------------------------------------------------------------------------
(* loomBiosInt, called by commands.  The handler of the BIOS (external)    *)
(* keeps what it reads.                                                    *)
BiosEnter ==
  /\ ~bios /\ ~off /\ ~panic
  /\ bios' = TRUE
  /\ ResetBiosDefaults
  /\ UNCHANGED <<typed, sent, data, full, off, module, panic, kbVars, ghosts>>

BiosIsr ==
  /\ bios
  /\ Serves("bios") /\ Serve
  /\ full' = FALSE
  /\ spoiled' = (spoiled \/ full)
  /\ UNCHANGED <<typed, sent, data, bios, off, module, panic, kbVars, taken, events>>

BiosLeave ==
  /\ bios
  /\ bios' = FALSE
  /\ SaveAndRestore
  /\ UNCHANGED <<typed, sent, data, full, off, module, panic, kbVars, ghosts>>
----------------------------------------------------------------------------
(* ps2's init function, when the core modules are loaded at start-up, and  *)
(* its deinit function in rmmod.  Nothing loads it again.  Removing what   *)
(* was never registered fails an assertion (a build without assertions     *)
(* writes to address 0 instead).                                           *)
ModInit ==
  /\ module = "out" /\ ~bios /\ ~off /\ ~panic
  /\ \E fails \in {FALSE, MayFail} :
       IF fails THEN module' = "nomem" /\ UNCHANGED picVars
       ELSE module' = "loaded" /\ SetMask(FALSE)
  /\ head' = 0 /\ tail' = 0 /\ poll' = 0 /\ last_key' = None /\ mods' = {}
  /\ buf' = [i \in Slots |-> 0]
  /\ UNCHANGED <<typed, sent, data, full, bios, off, panic, ghosts>>

ModDeinit ==
  /\ module \in {"loaded", "nomem"} /\ ~bios /\ ~off /\ ~panic
  /\ SetMask(TRUE)
  /\ panic' = (module = "nomem")
  /\ module' = IF panic' THEN module ELSE "removed"
  /\ spoiled' = (spoiled \/ head # tail \/ last_key = E0 \/ mods # {})
  /\ UNCHANGED <<typed, sent, data, full, bios, off, kbVars, taken, events>>
----------------------------------------------------------------------------
Init ==
  /\ PicInit
  /\ irr = FALSE
  /\ typed = <<>> /\ sent = 0 /\ data = 0 /\ full = FALSE
  /\ bios = FALSE /\ off = FALSE /\ module = "out" /\ panic = FALSE
  /\ buf = [i \in Slots |-> 0]
  /\ head = 0 /\ tail = 0 /\ poll = 0 /\ last_key = None /\ mods = {}
  /\ taken = 0 /\ spoiled = FALSE /\ events = <<>>

Next ==
  \/ \E a \in Typings : Types(a)
  \/ Receives
  \/ Isr \/ IrqSave \/ Poll \/ PollNothing
  \/ BiosEnter \/ BiosIsr \/ BiosLeave
  \/ ModInit \/ ModDeinit

Spec == Init /\ [][Next]_vars

(* BIOS calls return, and commands do: the shell polls again and again.    *)
Fairness == WF_vars(BiosLeave) /\ WF_vars(Isr) /\ SF_vars(IrqSave) /\ WF_vars(Poll \/ PollNothing)

FairSpec == Spec /\ Fairness
----------------------------------------------------------------------------
TypeOK ==
  /\ PicType
  /\ typed \in Seq(Typings) /\ sent \in 0..Len(Stream)
  /\ data \in 0..sent /\ full \in BOOLEAN
  /\ bios \in BOOLEAN /\ off \in BOOLEAN /\ module \in {"out", "loaded", "nomem", "removed"} /\ panic \in BOOLEAN
  /\ buf \in [Slots -> 0..sent] /\ head \in Slots /\ tail \in Slots
  /\ poll \in 0..(PollLimit - 1)
  /\ taken \in 0..sent /\ spoiled \in BOOLEAN

(* ps2Isr runs only while its module is there, and with its buffer: a BIOS *)
(* call gives the line back masked as it was, whatever the BIOS had.       *)
HandlerThere == Serves("loom") => module = "loaded" /\ ~bios

(* Bytes behind the one polled last, up to the one in the controller.      *)
Pipe == <<taken>> \o Ring \o (IF full THEN <<data>> ELSE <<>>)

(* Interrupt and fall-back keep the order of the bytes, and none is in the *)
(* ring a third time.                                                      *)
InOrder ==
  module = "loaded" =>
    /\ \A i, j \in DOMAIN Pipe : i < j => Pipe[i] <= Pipe[j]
    /\ \A i \in DOMAIN Pipe : i + 2 \in DOMAIN Pipe => Pipe[i] < Pipe[i + 2]

(* What the keys typed so far mean.                                        *)
Keycode(a) == IF a.ext THEN Extended[a.key] ELSE Plain[a.key]
Down(as, keycode) ==
  \E i \in DOMAIN as :
    /\ Keycode(as[i]) = keycode /\ as[i].press
    /\ \A j \in DOMAIN as : j > i => Keycode(as[j]) # keycode
Locks(as) == {i \in DOMAIN as : Keycode(as[i]) = "CAPSLOCK" /\ as[i].press}
ModsAfter(as) ==
  {Held[k] : k \in {h \in DOMAIN Held : Down(as, h)}}
  \cup (IF Cardinality(Locks(as)) % 2 = 1 THEN {"capslock"} ELSE {})
Event(as, i) ==
  [press |-> as[i].press, keycode |-> Keycode(as[i]), mods |-> ModsAfter(SubSeq(as, 1, i))]
Events(as, i) == IF Keycode(as[i]) = None THEN <<>> ELSE <<Event(as, i)>>
Expected(as) == FlattenSeq([i \in DOMAIN as |-> Events(as, i)])

(* Unless a byte was lost or came twice, all the bytes sent are polled,    *)
(* each once and in turn.                                                  *)
ByteForByte ==
  ~spoiled /\ module = "loaded" =>
    /\ Pipe = [i \in DOMAIN Pipe |-> (taken + i) - 1]
    /\ Pipe[Len(Pipe)] = sent

(* The shell then gets the events of the keys typed, all of them and in    *)
(* order, up to the bytes on their way.                                    *)
KeysHeard ==
  /\ ByteForByte
  /\ ~spoiled =>
       \E n \in 0..Len(typed) :
         /\ Len(FlattenSeq([i \in 1..n |-> Bytes(typed[i])])) \in {taken, taken - 1}
         /\ events = Expected(SubSeq(typed, 1, n))

(* A byte does not stay in the controller while the module is loaded, even *)
(* when its interrupt is lost in a BIOS call.                              *)
BytesTaken == full ~> (~full \/ module # "loaded")
=============================================================================
