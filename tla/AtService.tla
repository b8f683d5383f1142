------------------------------ MODULE AtService ------------------------------
(***************************************************************************)
(* The AT service: bytes from the transport's interrupt through the ring   *)
(* of src/src/at/at.c, the line editor and executor of at_parser.c, the    *)
(* registry of at_registry.c and the built-in commands of                  *)
(* commands/at_command_system.c, with what they keep in flash.             *)
(*                                                                         *)
(* A byte is a key: an editing key or a printable token that stands for a  *)
(* run of characters.  The text of a line is a sequence of tokens, so that *)
(* losing or merging input changes it as it changes characters.  The host  *)
(* types scripts; every byte carries the line its script spells, which is  *)
(* what the properties compare with the line the parser executes.          *)
(***************************************************************************)
EXTENDS Integers, Sequences

CONSTANTS
    Scripts,        \* what a host may type: [keys, means]
    RingSize,       \* CONFIG_RZI_AT_RX_BUFFER_SIZE
    BufferSize,     \* bytes process_input() takes at a time, 64 in the code
    ChunkSize,      \* bytes one interrupt hands over, at most 32 in the code
    LineMax,        \* CONFIG_RZI_AT_LINE_MAX - 1
    Extensions,     \* number of registered AT extensions
    WaitsForAnswer, \* TRUE: the host waits for an answer before the next line
    MaxScripts      \* bound: lines typed

Editing == {"bs", "cr", "lf", "ctl"}
ArgMax == 1                 \* tokens an argument may have, ALIAS_MAX and the 8 of a password
Empty == <<>>               \* an empty string in RAM, no such key in flash
NoLine == <<>>
Overflow == <<"overflow">>  \* a line refused because it was too long

AtConstants ==
    /\ Scripts \subseteq [keys : Seq(STRING), means : Seq(STRING)]
    /\ RingSize \in Nat \ {0} /\ BufferSize \in Nat \ {0} /\ ChunkSize \in Nat \ {0}
    /\ LineMax \in Nat \ {0} /\ MaxScripts \in Nat /\ Extensions \in Nat
    /\ WaitsForAnswer \in BOOLEAN

ASSUME AtAssumption == AtConstants

VARIABLES
    rx_ring, rx_overflow,   \* at.c
    buffer,                 \* the bytes process_input() has taken from the ring
    at_thread,              \* where the AT thread is
    started,                \* "off", "started", or "failed" until the next boot
    parser,                 \* line, line_overflow, ignore_lf of at_parser.c
    dev,                    \* what commands change in RAM, in flash and in extensions
    typing,                 \* bytes the host has still to send
    typed,                  \* lines the host has begun
    losses,                 \* overflows of the ring so far
    damage,                 \* "none", "lost" until it is answered, "answered" until a new line ends
    last                    \* the last line handled, what was meant, its answers

at_vars == <<rx_ring, rx_overflow, buffer, at_thread, started, parser, dev, typing, typed, losses,
           damage, last>>

-----------------------------------------------------------------------------
(* at_parser.c: the line editor *)

NewParser == [line |-> NoLine, overflow |-> FALSE, ignore_lf |-> FALSE]

\* What input and the host have in common.
input == <<rx_ring, rx_overflow, buffer, parser, typing, typed, losses, damage>>

put_key(p, key) ==
    IF Len(p.line) >= LineMax THEN [p EXCEPT !.overflow = TRUE, !.ignore_lf = FALSE]
    ELSE [p EXCEPT !.line = Append(@, key), !.ignore_lf = FALSE]

\* The parser after one byte; a line feed that follows a carriage return is dropped.
parser_feed(p, key) ==
    CASE key = "lf" /\ p.ignore_lf -> [p EXCEPT !.ignore_lf = FALSE]
      [] key = "bs" -> [p EXCEPT !.ignore_lf = FALSE, !.line = SubSeq(@, 1, Len(@) - 1)]
      [] key = "cr" \/ (key = "lf" /\ ~p.ignore_lf) -> [NewParser EXCEPT !.ignore_lf = key = "cr"]
      [] key = "ctl" -> [p EXCEPT !.ignore_lf = FALSE]
      [] OTHER -> put_key(p, key)

\* The line that a byte ends, Overflow for one too long, NoLine when there is none.
line_ended(p, key) ==
    IF key \notin {"cr", "lf"} \/ (key = "lf" /\ p.ignore_lf) THEN NoLine
    ELSE IF p.overflow THEN Overflow ELSE p.line

parser_reset == NewParser

\* The parser before the first and after each of the keys typed to it while it is idle;
\* lf: the next line feed follows a carriage return.
edit(keys, lf) ==
    LET p[i \in 0..Len(keys)] ==
            IF i = 0 THEN [NewParser EXCEPT !.ignore_lf = lf] ELSE parser_feed(p[i - 1], keys[i])
    IN  p

ParserState == [line : Seq(STRING), overflow : BOOLEAN, ignore_lf : BOOLEAN]

\* p: the states the keys take a parser through.
Edits(p, keys, lf) ==
    /\ p \in [0..Len(keys) -> ParserState]
    /\ p[0] = [NewParser EXCEPT !.ignore_lf = lf]
    /\ \A i \in 1..Len(keys) : p[i] = parser_feed(p[i - 1], keys[i])

\* Typed to an idle parser, the script ends no line but the one it means, and leaves nothing.
Spells(script) ==
    \A lf \in BOOLEAN :
        LET p == edit(script.keys, lf)
        IN  /\ Edits(p, script.keys, lf)
            /\ \A i \in 1..Len(script.keys) :
                   line_ended(p[i - 1], script.keys[i]) \in {NoLine, script.means}
            /\ p[Len(script.keys)].line = NoLine /\ ~p[Len(script.keys)].overflow

ScriptsSpell == \A script \in Scripts : Spells(script)

ASSUME ScriptsAssumption == ScriptsSpell

-----------------------------------------------------------------------------
(* Results of a handler: the device, the return code, what it has answered *)

OK == "OK"
respond(d, status) == [dev |-> d, rc |-> OK, said |-> <<status>>, reboot |-> FALSE]
error(d, rc) == [dev |-> d, rc |-> rc, said |-> <<>>, reboot |-> FALSE]

\* A value that does not fit in the transmit buffer is an error before anything is written.
respond_value(d, fits) == IF fits THEN respond(d, OK) ELSE error(d, "OVERFLOW")

\* An error that nobody looks at is not answered.
ignore_result(r) == [r EXCEPT !.rc = OK]

\* The answers to a line: the handler's own, then one for an error it returns.
respond_for_error(r) ==
    CASE r.rc = OK -> r.said
      [] r.rc = "INVALID" -> Append(r.said, "AT_PARAM_ERROR")
      [] r.rc = "OVERFLOW" -> Append(r.said, "AT_TEST_PARAM_OVERFLOW")
      [] OTHER -> Append(r.said, "AT_ERROR")

-----------------------------------------------------------------------------
(* at_command_system.c; ok: the storage, the device or the buffer does not fail *)

\* VER, FIRMWAREVER, CLIVER, APIVER, HWMODEL and HWID answer a constant.
handle_version(d, ok) == respond_value(d, ok)

\* SN and FSN; the hardware id is read once.
handle_sn(d, ok) == respond_value([d EXCEPT !.sn = IF @ = Empty THEN <<"hwinfo">> ELSE @], ok)

\* Without CONFIG_RZI_AT_NVM nothing is saved, which does not fail, and nothing is loaded.
saves(d, ok) == ok \/ ~d.storage
save_string(d, key, value) == IF d.storage THEN [d EXCEPT !.nvm[key] = value] ELSE d

\* Mutant: the name is published before it is saved.
HandleAliasPublishFirst(d, op, arg, ok) ==
    LET new == [d EXCEPT !.alias = arg]
    IN  IF op = "READ" THEN respond_value(d, ok)
        ELSE IF saves(d, ok) THEN respond(save_string(new, "alias", arg), OK) ELSE error(new, "IO")

handle_alias(d, op, arg, ok) ==
    IF op = "READ" THEN respond_value(d, ok)
    ELSE IF Len(arg) > ArgMax THEN error(d, "INVALID")
    ELSE IF saves(d, ok) THEN respond([save_string(d, "alias", arg) EXCEPT !.alias = arg], OK)
    ELSE error(d, "IO")

\* BUILDTIME, REPOINFO, BOOTVER, DEBUG
handle_buildtime(d, ok) == respond_value(d, ok)
handle_debug(d, ok) == respond_value(d, ok)

handle_boot(d) == [respond(d, OK) EXCEPT !.reboot = TRUE]

handle_lock(d, op, ok) ==
    IF op = "READ" THEN respond_value(d, ok) ELSE respond([d EXCEPT !.locked = TRUE], OK)

\* Unlocks while locked; otherwise sets the password, in flash first.
handle_pword(d, op, arg, ok) ==
    IF op = "READ" THEN respond_value(d, ok)
    ELSE IF d.locked
    THEN IF arg = d.password THEN respond([d EXCEPT !.locked = FALSE], OK) ELSE error(d, "INVALID")
    ELSE IF Len(arg) > ArgMax THEN error(d, "INVALID")
    ELSE IF saves(d, ok) THEN respond([save_string(d, "pword", arg) EXCEPT !.password = arg], OK)
    ELSE error(d, "IO")

handle_baud(d, op, arg, ok) ==
    IF op = "READ" THEN respond_value(d, ok)
    ELSE IF Len(arg) > ArgMax THEN error(d, "INVALID")
    ELSE IF ok THEN respond([d EXCEPT !.baud = arg], OK) ELSE error(d, "IO")

handle_atm(d) == respond(d, OK)

\* Answers first, then blocks the AT thread, which cannot fail in a thread.
handle_sleep(d, arg) == IF Len(arg) > ArgMax THEN error(d, "INVALID") ELSE respond(d, OK)

handle_lpm(d, op, arg, ok) ==
    IF op = "READ" THEN respond_value(d, ok)
    ELSE IF arg \notin {<<"0">>, <<"1">>} THEN error(d, "INVALID")
    ELSE IF ok THEN respond([d EXCEPT !.lpm = arg], OK) ELSE error(d, "NOT_SUPPORTED")

handle_lpmlvl(d, op, arg, ok) ==
    IF op = "READ" THEN respond_value(d, ok)
    ELSE IF arg \notin {<<"1">>, <<"2">>} THEN error(d, "INVALID")
    ELSE respond([d EXCEPT !.lpm_level = arg], OK)

handle_bat(d) == error(d, "NOT_SUPPORTED")

-----------------------------------------------------------------------------
(* at_registry.c *)

\* Every extension is reset, one that fails included; the first error is returned.
factory_reset(d, oks) ==
    [dev |-> [d EXCEPT !.ext = [e \in DOMAIN @ |-> IF oks[e] THEN "default" ELSE @[e]]],
     rc |-> IF \A e \in DOMAIN oks : oks[e] THEN OK ELSE "IO"]

handle_factory(d, oks) ==
    LET r == factory_reset(d, oks)
    IN  IF r.rc # OK THEN error(r.dev, r.rc) ELSE [respond(r.dev, OK) EXCEPT !.reboot = TRUE]

\* The operations each command allows.
commands ==
    [VER |-> {"READ"}, SN |-> {"READ"}, ALIAS |-> {"READ", "WRITE"}, BUILDTIME |-> {"READ"},
     DEBUG |-> {"RUN"}, BOOT |-> {"RUN"}, FACTORY |-> {"RUN"}, LOCK |-> {"RUN", "READ"},
     PWORD |-> {"READ", "WRITE"}, BAUD |-> {"READ", "WRITE"}, ATM |-> {"RUN"},
     SLEEP |-> {"WRITE"}, LPM |-> {"READ", "WRITE"}, LPMLVL |-> {"READ", "WRITE"}, BAT |-> {"READ"}]

handler(d, name, op, arg, ok, oks) ==
    CASE name = "VER" -> handle_version(d, ok)
      [] name = "SN" -> handle_sn(d, ok)
      [] name = "ALIAS" -> handle_alias(d, op, arg, ok)
      [] name = "BUILDTIME" -> handle_buildtime(d, ok)
      [] name = "DEBUG" -> handle_debug(d, ok)
      [] name = "BOOT" -> handle_boot(d)
      [] name = "FACTORY" -> handle_factory(d, oks)
      [] name = "LOCK" -> handle_lock(d, op, ok)
      [] name = "PWORD" -> handle_pword(d, op, arg, ok)
      [] name = "BAUD" -> handle_baud(d, op, arg, ok)
      [] name = "ATM" -> handle_atm(d)
      [] name = "SLEEP" -> handle_sleep(d, arg)
      [] name = "LPM" -> handle_lpm(d, op, arg, ok)
      [] name = "LPMLVL" -> handle_lpmlvl(d, op, arg, ok)
      [] OTHER -> handle_bat(d)

dispatch(d, name, op, arg, ok, oks) ==
    IF name \notin DOMAIN commands THEN error(d, "NOT_FOUND")
    ELSE IF op = "HELP" THEN respond_value(d, ok)
    ELSE IF op \notin commands[name] THEN error(d, "NOT_SUPPORTED")
    ELSE handler(d, name, op, arg, ok, oks)

-----------------------------------------------------------------------------
(* at_parser.c: the executor *)

Plain == {"AT", "ATE", "ATZ", "ATR"}    \* lines without AT+

operation(line) ==
    CASE Len(line) = 1 -> "RUN"
      [] Tail(line) = <<"?">> -> "HELP"
      [] Tail(line) = <<"=?">> -> "READ"
      [] OTHER -> "WRITE"

\* While the port is locked only PWORD and LOCK are dispatched.
execute_command(d, line, ok, oks) ==
    IF d.locked /\ line[1] \notin {"PWORD", "LOCK"} THEN respond(d, "AT_ERROR")
    ELSE dispatch(d, line[1], operation(line), Tail(line), ok, oks)

\* AT?, ATE?, ATZ? and ATR?: a text that cannot be written leaves the line without an answer.
PlainHelp == {<<name, "?">> : name \in Plain}

execute(d, line, ok, oks) ==
    CASE line = <<"AT">> -> respond(d, OK)
      [] line = <<"ATE">> -> respond([d EXCEPT !.echo = ~@], OK)
      [] line = <<"ATZ">> -> [dev |-> d, rc |-> OK, said |-> <<>>, reboot |-> TRUE]
      [] line = <<"ATR">> ->
             LET r == factory_reset(d, oks)
             IN  IF r.rc = OK THEN [respond(r.dev, OK) EXCEPT !.reboot = TRUE]
                 ELSE respond(r.dev, "AT_ERROR")
      [] line \in PlainHelp -> ignore_result(respond_value(d, ok))
      [] line[1] \in Plain /\ line \notin PlainHelp /\ Len(line) > 1 -> respond(d, "AT_ERROR")
      [] OTHER -> execute_command(d, line, ok, oks)

-----------------------------------------------------------------------------
(* at.c and the UART adapter: start, input and the AT thread *)

\* A value that flash cannot be read for stays empty; the error is ignored.
load_string(value, readable) == IF readable THEN value ELSE Empty

Keys == {"alias", "pword"}      \* the strings kept under rzi/

\* rzi_at_builtin_register() loads the strings that can be read, then the registry is sealed.
Start(readable) ==
    /\ started = "off" /\ (dev.storage \/ readable = {})
    /\ started' = "started"
    /\ dev' = [dev EXCEPT !.locked = FALSE, !.echo = TRUE, !.sn = Empty, !.baud = Empty,
                          !.lpm = Empty, !.lpm_level = Empty, !.loaded = readable,
                          !.alias = load_string(dev.nvm.alias, "alias" \in readable),
                          !.password = load_string(dev.nvm.pword, "pword" \in readable)]
    /\ UNCHANGED <<input, at_thread, last>>

\* A package or an extension fails to start.  The registry keeps what was registered, so
\* a second rzi_at_start() fails too: the service stays off until the next boot.
StartFails ==
    /\ started = "off"
    /\ started' = "failed"
    /\ UNCHANGED <<input, at_thread, dev, last>>

LoseRam ==
    /\ started' = "off" /\ at_thread' = "idle"
    /\ rx_ring' = <<>> /\ rx_overflow' = FALSE /\ buffer' = <<>> /\ parser' = NewParser
    /\ typing' = <<>> /\ damage' = "none"
    /\ UNCHANGED <<typed, losses>>

PowerCycle ==
    /\ started # "off"
    /\ LoseRam
    /\ UNCHANGED <<dev, last>>

HostType(script) ==
    /\ started = "started" /\ typing = <<>> /\ typed < MaxScripts
    /\ WaitsForAnswer => rx_ring = <<>> /\ buffer = <<>> /\ at_thread = "idle"
    /\ typed' = typed + 1
    /\ typing' = [i \in DOMAIN script.keys |-> [key |-> script.keys[i], means |-> script.means,
                                               gen |-> 0]]
    /\ UNCHANGED <<rx_ring, rx_overflow, buffer, at_thread, started, parser, dev, losses, damage, last>>

\* gen: how many overflows came before this byte.
Stamp(bytes) == [i \in DOMAIN bytes |-> [bytes[i] EXCEPT !.gen = losses]]

\* Mutant: only input of which nothing was kept raises the flag.
AtReceiveFlagsEmpty(n) ==
    LET written == IF n <= RingSize - Len(rx_ring) THEN n ELSE RingSize - Len(rx_ring)
    IN  /\ started = "started" /\ n <= Len(typing)
        /\ rx_ring' = rx_ring \o Stamp(SubSeq(typing, 1, written))
        /\ typing' = SubSeq(typing, n + 1, Len(typing))
        /\ IF written # n
           THEN losses' = losses + 1 /\ damage' = "lost" /\ rx_overflow' = (rx_overflow \/ written = 0)
           ELSE UNCHANGED <<losses, damage, rx_overflow>>
        /\ UNCHANGED <<buffer, at_thread, started, parser, dev, typed, last>>

\* The interrupt hands over n bytes; the ring keeps those it has room for.
at_receive(n) ==
    LET written == IF n <= RingSize - Len(rx_ring) THEN n ELSE RingSize - Len(rx_ring)
    IN  /\ started = "started" /\ n <= Len(typing)
        /\ rx_ring' = rx_ring \o Stamp(SubSeq(typing, 1, written))
        /\ typing' = SubSeq(typing, n + 1, Len(typing))
        /\ IF written # n
           THEN losses' = losses + 1 /\ damage' = "lost" /\ rx_overflow' = TRUE
           ELSE UNCHANGED <<losses, damage, rx_overflow>>
        /\ UNCHANGED <<buffer, at_thread, started, parser, dev, typed, last>>

\* Mutant: what was typed of a line is dropped at every wake.
ProcessInputForgets ==
    /\ started = "started" /\ at_thread = "idle" /\ (rx_overflow \/ rx_ring # <<>>)
    /\ at_thread' = "loop"
    /\ rx_overflow' = FALSE
    /\ parser' = parser_reset
    /\ damage' = IF rx_overflow /\ damage = "lost" THEN "answered" ELSE damage
    /\ UNCHANGED <<rx_ring, buffer, started, dev, typing, typed, losses, last>>

\* The thread wakes, on rx_ready or after its interval, and looks at the flag first.
\* A wake that finds nothing changes nothing and is left out.
ProcessInput ==
    /\ started = "started" /\ at_thread = "idle" /\ (rx_overflow \/ rx_ring # <<>>)
    /\ at_thread' = "loop"
    /\ rx_overflow' = FALSE
    /\ parser' = IF rx_overflow THEN parser_reset ELSE parser
    /\ damage' = IF rx_overflow /\ damage = "lost" THEN "answered" ELSE damage
    /\ UNCHANGED <<rx_ring, buffer, started, dev, typing, typed, losses, last>>

RingGet ==
    LET count == IF Len(rx_ring) <= BufferSize THEN Len(rx_ring) ELSE BufferSize
    IN  /\ at_thread = "loop" /\ buffer = <<>> /\ rx_ring # <<>>
        /\ buffer' = SubSeq(rx_ring, 1, count)
        /\ rx_ring' = SubSeq(rx_ring, count + 1, Len(rx_ring))
        /\ UNCHANGED <<rx_overflow, at_thread, started, parser, dev, typing, typed, losses, damage, last>>

\* The ring is empty: the extensions run, then the thread waits again.
InputDone ==
    /\ at_thread = "loop" /\ buffer = <<>> /\ rx_ring = <<>>
    /\ at_thread' = "idle"
    /\ UNCHANGED <<input, started, dev, last>>

\* A terminator sent after the last overflow ends the damage once that was answered.
Repair(byte) ==
    damage' = IF damage = "answered" /\ byte.key \in {"cr", "lf"} /\ byte.gen = losses
              THEN "none" ELSE damage

Handled(byte, line, answers) ==
    [line |-> line, means |-> byte.means, answers |-> answers, clean |-> damage = "none"]

FeedKey ==
    /\ buffer # <<>>
    /\ LET byte == Head(buffer)
           line == line_ended(parser, byte.key)
       IN  /\ line \in {NoLine, Overflow}
           /\ parser' = parser_feed(parser, byte.key)
           /\ last' = IF line = NoLine THEN last
                      ELSE Handled(byte, line, <<"AT_TEST_PARAM_OVERFLOW">>)
           /\ Repair(byte)
    /\ buffer' = Tail(buffer)
    /\ UNCHANGED <<rx_ring, rx_overflow, at_thread, started, dev, typing, typed, losses>>

\* The byte ends a line, which runs to its answer before the next byte is looked at.
FeedLine(ok, oks) ==
    /\ buffer # <<>>
    /\ LET byte == Head(buffer)
           line == line_ended(parser, byte.key)
           r == execute(dev, line, ok, oks)
       IN  /\ line \notin {NoLine, Overflow}
           /\ dev' = r.dev
           /\ last' = Handled(byte, line, respond_for_error(r))
           /\ IF r.reboot THEN LoseRam
              ELSE /\ parser' = parser_feed(parser, byte.key)
                   /\ Repair(byte)
                   /\ buffer' = Tail(buffer)
                   /\ UNCHANGED <<rx_ring, rx_overflow, at_thread, started, typing, typed, losses>>

-----------------------------------------------------------------------------
AtInit ==
    /\ rx_ring = <<>> /\ rx_overflow = FALSE /\ buffer = <<>> /\ at_thread = "idle"
    /\ started = "off" /\ parser = NewParser
    /\ \E storage \in BOOLEAN :
          dev = [storage |-> storage, locked |-> FALSE, password |-> Empty, alias |-> Empty,
                 sn |-> Empty, echo |-> TRUE, baud |-> Empty, lpm |-> Empty, lpm_level |-> Empty,
                 loaded |-> {}, nvm |-> [alias |-> Empty, pword |-> Empty],
                 ext |-> [e \in 1..Extensions |-> "set"]]
    /\ typing = <<>> /\ typed = 0 /\ losses = 0 /\ damage = "none"
    /\ last = [line |-> NoLine, means |-> NoLine, answers |-> <<OK>>, clean |-> TRUE]

AtThread ==
    \/ ProcessInput \/ RingGet \/ InputDone \/ FeedKey
    \/ \E ok \in BOOLEAN, oks \in [1..Extensions -> BOOLEAN] : FeedLine(ok, oks)

AtNext ==
    \/ \E readable \in SUBSET Keys : Start(readable)
    \/ StartFails \/ PowerCycle
    \/ \E script \in Scripts : HostType(script)
    \/ \E n \in 1..ChunkSize : at_receive(n)
    \/ AtThread

AtSpec == AtInit /\ [][AtNext]_at_vars
AtFairSpec == AtSpec /\ WF_at_vars(AtThread)

-----------------------------------------------------------------------------
(* Properties *)

AtTypeOK ==
    /\ Len(rx_ring) <= RingSize /\ Len(buffer) <= BufferSize
    /\ rx_overflow \in BOOLEAN
    /\ at_thread \in {"idle", "loop"}
    /\ started \in {"off", "started", "failed"}
    /\ Len(parser.line) <= LineMax /\ parser.overflow \in BOOLEAN /\ parser.ignore_lf \in BOOLEAN
    /\ dev.locked \in BOOLEAN /\ dev.loaded \subseteq Keys /\ dev.echo \in BOOLEAN
    /\ dev.ext \in [1..Extensions -> {"set", "default"}]
    /\ typed \in 0..MaxScripts /\ losses \in Nat
    /\ damage \in {"none", "lost", "answered"}

\* Input that no overflow touched is executed as it was typed, backspaces, CR LF pairs and
\* control characters included, and is answered exactly once; an overflow of the ring
\* spoils nothing beyond the first line that is sent after it and ends after it was answered.
\* ATZ reboots instead of an answer; AT?, ATE?, ATZ? and ATR? are answered once or, when their
\* text cannot be written, not at all.
AnsweredAsTyped ==
    last.clean => /\ last.line = last.means
                  /\ \/ Len(last.answers) = 1
                     \/ last.line = <<"ATZ">> /\ last.answers = <<>>
                     \/ last.line \in PlainHelp /\ last.answers = <<>>

\* Every overflow of the ring is noticed by the AT thread and answered.
OverflowAnswered == damage = "lost" ~> damage # "lost"

\* The alias and the password in RAM are the ones in flash, which the next boot loads,
\* each unless this boot could not read it: a setting is saved before it is published.
RamIsFlash ==
    started = "started" => /\ "alias" \in dev.loaded => dev.alias = dev.nvm.alias
                           /\ "pword" \in dev.loaded => dev.password = dev.nvm.pword

\* ATR and AT+FACTORY answer OK only when every extension has cleared its state.
ResetIsWhole ==
    (last.line \in {<<"ATR">>, <<"FACTORY">>} /\ last.answers = <<OK>>) =>
        \A e \in 1..Extensions : dev.ext[e] = "default"

\* The system settings survive what the host can do: saves that fail, resets that fail half
\* way and power losses.
SettingsKept == AtTypeOK /\ RamIsFlash /\ ResetIsWhole

\* Without the exception of the lines that ask for the text of a plain command.
EveryLineAnswered == last.line = <<"ATZ">> \/ Len(last.answers) = 1

\* doc/at-framework.md: "An RX overflow resets the partial command before reporting an
\* overflow response, so truncated input cannot be executed."
TruncatedNotExecuted == last.line \in {Overflow, last.means}
=============================================================================
