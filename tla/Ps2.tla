-------------------------------- MODULE Ps2 --------------------------------
(***************************************************************************)
(* ps2::init() of drivers/keyboard/ps2.cpp, against a controller that may  *)
(* be slow or silent and a user who may press keys meanwhile.  init() is a *)
(* straight line of commands, data bytes and reads: Program, one entry for *)
(* each, which the actions interpret.  Interrupts are off throughout.      *)
(*                                                                         *)
(* A byte has a kind and the bits it has when it is read as a              *)
(* configuration: irq (PORT1_IRQ), translate, and off (port 1's clock).    *)
(***************************************************************************)
EXTENDS Integers, Sequences

CONSTANTS
    MaxTimeouts,  \* bound on the waits that exceed PS2_TIMEOUT
    MaxKeys       \* bound on the keys pressed during init()

ASSUME Ps2Assumption == MaxTimeouts \in Nat /\ MaxKeys \in Nat

VARIABLES
    ip,           \* the entry of Program that is next
    ctl,          \* the controller: cfg, out (output buffer), wants (a config byte)
    config,       \* init()'s local variable
    outcome,      \* "running", or init()'s result: "ok", "failed"
    timeouts,     \* waits that have timed out; a missing controller is one,
                  \* and so is a part that fails its test
    keys,         \* keys pressed
    stray,        \* entries of Program that read a byte meant for somebody else
    silent        \* entries whose failure init() did not notice

ps2Vars == <<ip, ctl, config, outcome, timeouts, keys, stray, silent>>

Bits == [irq : BOOLEAN, translate : BOOLEAN, off : BOOLEAN]

PowerOn == [irq |-> TRUE, translate |-> TRUE, off |-> FALSE]

Byte(kind, bits) == [kind |-> kind, bits |-> bits]

-----------------------------------------------------------------------------
(* What the controller and the keyboard do with what they are sent.        *)

\* Bytes without a meaning as a configuration.
Answer(kind) == Byte(kind, PowerOn)

\* The controller after a command; the self-test may reset it.
Command(c, cmd) ==
    CASE cmd = "DISABLE_PORT1" -> {[c EXCEPT !.cfg.off = TRUE]}
      [] cmd = "DISABLE_PORT2" -> {c}
      [] cmd = "ENABLE_PORT1"  -> {[c EXCEPT !.cfg.off = FALSE]}
      [] cmd = "READ_CONFIG"   -> {[c EXCEPT !.out = Append(@, Byte("config", c.cfg))]}
      [] cmd = "WRITE_CONFIG"  -> {[c EXCEPT !.wants = TRUE]}
      [] cmd = "TEST_PORT1"    -> {[c EXCEPT !.out = Append(@, Answer("port_ok"))]}
      [] cmd = "SELF_TEST"     ->
           {[c EXCEPT !.out = Append(@, Answer("self_test_ok")), !.cfg = after] :
              after \in {c.cfg, PowerOn}}

\* A data byte is the configuration the controller waits for, or it goes to the
\* keyboard, which acknowledges a reset and complains about anything else.
Data(c, kind, bits) ==
    IF c.wants THEN [c EXCEPT !.wants = FALSE, !.cfg = bits]
    ELSE IF c.cfg.off THEN c
    ELSE IF kind = "reset"
         THEN [c EXCEPT !.out = @ \o <<Answer("ack"), Answer("bat_ok")>>]
         ELSE [c EXCEPT !.out = Append(@, Answer("resend"))]

-----------------------------------------------------------------------------
(* init().  must: a failure makes init() return false; skip: it makes      *)
(* init() leave out the rest of the program.                               *)

Send(cmd, must)   == [op |-> "send", arg |-> cmd, must |-> must, skip |-> FALSE]
SendConfig        == [op |-> "data", arg |-> "config", must |-> FALSE, skip |-> FALSE]
Read(kind)        == [op |-> "read", arg |-> kind, must |-> TRUE, skip |-> FALSE]
ReadOrSkip(kind)  == [op |-> "read", arg |-> kind, must |-> FALSE, skip |-> TRUE]
ps2_flush         == [op |-> "flush", arg |-> "none", must |-> FALSE, skip |-> FALSE]
controller_exists == [op |-> "exists", arg |-> "none", must |-> TRUE, skip |-> FALSE]
Edit(what)        == [op |-> "edit", arg |-> what, must |-> FALSE, skip |-> FALSE]

DisablePorts == <<Send("DISABLE_PORT1", FALSE), Send("DISABLE_PORT2", FALSE)>>

ReadConfig == <<Send("READ_CONFIG", FALSE), Read("config"), Edit("mask")>>

WriteConfig == <<Send("WRITE_CONFIG", FALSE), SendConfig>>

ps2_self_test == <<Send("SELF_TEST", TRUE), Read("self_test_ok")>>

ps2_test_port1 == <<Send("TEST_PORT1", TRUE), Read("port_ok")>>

keyboard_reset ==
    << [op |-> "data", arg |-> "reset", must |-> TRUE, skip |-> FALSE],
       Read("ack"), Read("bat_ok") >>

Steps1To5 ==
    <<controller_exists>> \o DisablePorts \o <<ps2_flush>> \o ReadConfig \o WriteConfig
    \o ps2_self_test

Enable == <<Send("ENABLE_PORT1", FALSE)>>

Rest(enable_and_reset) ==
    WriteConfig \o ps2_test_port1 \o enable_and_reset
    \o <<Send("READ_CONFIG", FALSE), ReadOrSkip("config"), Edit("unmask")>> \o WriteConfig

\* Mutant: the keyboard is reset before its port is on.
Bug_reset_first == Rest(keyboard_reset \o Enable)

\* The restored configuration, and steps 6 to 9.
Steps6To9 == Rest(Enable \o keyboard_reset)

Program == Steps1To5 \o Steps6To9

Entry == Program[ip]

\* The entry fails: init() returns, skips, or goes on without noticing.
Fails ==
    /\ outcome' = IF Entry.must THEN "failed" ELSE outcome
    /\ ip' = IF Entry.skip THEN Len(Program) + 1 ELSE ip + 1
    /\ silent' = IF Entry.must THEN silent ELSE silent \cup {ip}
    /\ UNCHANGED <<ctl, config, keys, stray>>

TimesOut ==
    /\ timeouts < MaxTimeouts
    /\ timeouts' = timeouts + 1
    /\ Fails

Proceed == ip' = ip + 1 /\ UNCHANGED <<outcome, timeouts, keys, silent>>

Active(op) == outcome = "running" /\ ip <= Len(Program) /\ Entry.op = op

ps2_send_command ==
    /\ Active("send")
    /\ \/ TimesOut
       \/ Proceed /\ ctl' \in Command(ctl, Entry.arg) /\ UNCHANGED <<config, stray>>

ps2_send_data ==
    /\ Active("data")
    /\ \/ TimesOut
       \/ Proceed /\ ctl' = Data(ctl, Entry.arg, config) /\ UNCHANGED <<config, stray>>

\* An empty output buffer times out; so does a full one whose byte comes late.
\* The answer of a controller, port or keyboard that fails its test is covered
\* by TimesOut too: init() returns false at once in both cases.
\* A wrong answer is a failure of the entry, a wrong byte for a configuration
\* is not noticed.
ps2_read_data ==
    /\ Active("read")
    /\ \/ TimesOut
       \/ ctl.out = <<>> /\ Fails /\ UNCHANGED timeouts
       \/ /\ ctl.out # <<>>
          /\ ctl' = [ctl EXCEPT !.out = Tail(@)]
          /\ stray' = IF Head(ctl.out).kind # Entry.arg THEN stray \cup {ip} ELSE stray
          /\ config' = IF Entry.arg = "config" THEN Head(ctl.out).bits ELSE config
          /\ outcome' = IF Entry.arg \notin {Head(ctl.out).kind, "config"}
                        THEN "failed" ELSE outcome
          /\ ip' = ip + 1
          /\ UNCHANGED <<timeouts, keys, silent>>

Local ==
    \/ /\ Active("flush")
       /\ Proceed /\ ctl' = [ctl EXCEPT !.out = <<>>] /\ UNCHANGED <<config, stray>>
    \/ /\ Active("edit")
       /\ config' = [config EXCEPT !.irq = (Entry.arg = "unmask"),
                                   !.translate = (Entry.arg = "unmask")]
       /\ Proceed /\ UNCHANGED <<ctl, stray>>
    \/ /\ Active("exists")
       /\ \/ Proceed /\ UNCHANGED <<ctl, config, stray>>
          \/ TimesOut

\* Step 10: ioapic_route_irq() and register_irq_handler().
Finish ==
    /\ outcome = "running" /\ ip > Len(Program)
    /\ outcome' = "ok"
    /\ UNCHANGED <<ip, ctl, config, timeouts, keys, stray, silent>>

\* Somebody presses a key while port 1's clock is on.
KeyPress ==
    /\ outcome = "running" /\ keys < MaxKeys /\ ~ctl.cfg.off
    /\ keys' = keys + 1
    /\ \E bits \in Bits : ctl' = [ctl EXCEPT !.out = Append(@, Byte("key", bits))]
    /\ UNCHANGED <<ip, config, outcome, timeouts, stray, silent>>

Ps2Init ==
    /\ ip = 1 /\ outcome = "running"
    /\ ctl = [cfg |-> PowerOn, out |-> <<>>, wants |-> FALSE]
    /\ config = PowerOn
    /\ timeouts = 0 /\ keys = 0 /\ stray = {} /\ silent = {}

Ps2Next ==
    \/ ps2_send_command \/ ps2_send_data \/ ps2_read_data \/ Local \/ Finish \/ KeyPress

Ps2Spec == Ps2Init /\ [][Ps2Next]_ps2Vars

-----------------------------------------------------------------------------
Ps2TypeOK ==
    /\ ip \in 1..(Len(Program) + 1)
    /\ ctl.cfg \in Bits /\ ctl.wants \in BOOLEAN
    /\ \A i \in 1..Len(ctl.out) : ctl.out[i].bits \in Bits
    /\ config \in Bits
    /\ outcome \in {"running", "ok", "failed"}
    /\ timeouts \in 0..MaxTimeouts /\ keys \in 0..MaxKeys
    /\ stray \cup silent \subseteq 1..Len(Program)

Working == ctl.cfg = PowerOn

\* init() returns true with a dead keyboard only when it overlooked something:
\* a send it does not check, the read of step 9 it goes on without, or a byte
\* of the keyboard read for the configuration.
WorksUnlessOverlooked == outcome = "ok" /\ silent = {} /\ stray = {} => Working

\* keyboard::init() panics when init() returns false.  It takes a wait that timed
\* out, a failed test or a key pressed at the wrong moment.
FailsForAReason == outcome = "failed" => timeouts > 0 \/ stray # {}

\* The configuration of step 4 is the controller's: with both ports off and the
\* buffer flushed no key can be taken for an answer before the self-test, unless
\* the commands to the ports were lost.
QuietBeforeSelfTest == stray # {} /\ timeouts = 0 => \A i \in stray : i > Len(Steps1To5)

\* What init() reports can be relied on but for the omissions named: it fails for
\* a reason, and when it succeeds without overlooking anything the keyboard works.
InitReportsTruth ==
    Ps2TypeOK /\ WorksUnlessOverlooked /\ FailsForAReason /\ QuietBeforeSelfTest
=============================================================================
