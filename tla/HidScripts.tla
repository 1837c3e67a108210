----------------------------- MODULE HidScripts -----------------------------
(***************************************************************************)
(* What the three keyboard programs of the GLKVM send, and what the other  *)
(* end makes of it: devices/glkvm/hid-type.py, hid-hold-key.py and         *)
(* kvm-switch.py.  HidKeyboard is how a report gets there, within which    *)
(* deadlines, and what happens when it does not; here every report gets    *)
(* there, until an exception or a signal ends the program.                 *)
(*                                                                         *)
(* A report is [mod, key] with its usage code.  The other end knows the    *)
(* usage tables of the HID standard (US layout) and hears a key when a     *)
(* report holds what the one before did not.  Time is in units of 25 ms,   *)
(* and a pause may end late.                                               *)
(***************************************************************************)
EXTENDS Integers, Sequences, SequencesExt

CONSTANTS
    Typings,      \* token lists of hid-type
    Holds,        \* [key, span] of hid-hold-key
    ChannelKeys,     \* arguments of kvm-switch
    Leftovers,    \* reports that may be down when a program starts
    MaxSlack      \* bound on how late a pause ends

\* A token is [kind, arg]: "sleep" with a time, "type" with its characters, "ctrl-alt-"
\* or "name" with what follows, in lower case.  A character that is no good in a string
\* has a name.
Tokens ==
    [kind : {"sleep"}, arg : Int] \cup [kind : {"type"}, arg : Seq(STRING)]
        \cup [kind : {"ctrl-alt-", "name"}, arg : STRING]

ASSUME ScriptsAssumption ==
    /\ Typings \subseteq Seq(Tokens)
    /\ \A h \in Holds : h.key \in Int /\ h.span \in Int
    /\ ChannelKeys \subseteq Int
    /\ Leftovers \subseteq [mod : 0 .. 255, key : 0 .. 255]
    /\ MaxSlack \in Nat

VARIABLES
    command,      \* the program and its arguments
    ending,      \* "new", "running", "ok", "refused", "bad" or "stopped"
    tokensLeft,   \* tokens hid-type has not begun
    charsLeft,    \* characters it has not begun of the one it types
    strokes,      \* steps of the tap, or of the round, under way
    holdEnd,      \* hid-hold-key's local end
    clock,
    down,         \* the report the other end has
    heard,        \* history: what it heard
    upSince       \* when the other end last got a neutral report

cvars == <<command, ending, tokensLeft, charsLeft, strokes, holdEnd>>
svars == <<cvars, clock, down, heard, upSince>>

Off == [mod |-> 0, key |-> 0]

-----------------------------------------------------------------------------
(* The tables of hid-type.                                                 *)

Letters  == <<"a", "b", "c", "d", "e", "f", "g", "h", "i", "j", "k", "l", "m", "n", "o",
              "p", "q", "r", "s", "t", "u", "v", "w", "x", "y", "z">>
Capitals == <<"A", "B", "C", "D", "E", "F", "G", "H", "I", "J", "K", "L", "M", "N", "O",
              "P", "Q", "R", "S", "T", "U", "V", "W", "X", "Y", "Z">>
Digits   == <<"1", "2", "3", "4", "5", "6", "7", "8", "9", "0">>
DigitMarks == <<"!", "@", "#", "$", "%", "^", "&", "*", "(", ")">>
FKeys    == <<"f1", "f2", "f3", "f4", "f5", "f6", "f7", "f8", "f9", "f10", "f11", "f12">>

NearMarks == <<"blank", "-", "=", "[", "]", "\\">>
FarMarks  == <<"semicolon", "'", "backtick", "comma", ".", "/">>
Bases     == <<"-", "=", "[", "]", "\\", "semicolon", "'", "backtick", "comma", ".", "/">>
Symbols   == <<"underscore", "+", "lbrace", "rbrace", "|", ":", "dquote", "~", "<", ">", "?">>

Paired(names, values) == [c \in ToSet(names) |-> values[CHOOSE i \in DOMAIN names : names[i] = c]]
Numbered(names, first) == Paired(names, [i \in DOMAIN names |-> first + i - 1])

\* A dictionary and its update; the prover knows no definition of "@@".
Updated(f, g) == [c \in DOMAIN f \cup DOMAIN g |-> IF c \in DOMAIN g THEN g[c] ELSE f[c]]

Named ==
    Updated([enter |-> 40, esc |-> 41, bksp |-> 42, tab |-> 43, space |-> 44, capslock |-> 57,
             right |-> 79, left |-> 80, down |-> 81, up |-> 82, ins |-> 73, home |-> 74,
             pgup |-> 75, del |-> 76, end |-> 77, pgdn |-> 78, pause |-> 72],
            Numbered(FKeys, 58))

Plain ==
    Updated(Updated(Numbered(Letters, 4), Numbered(Digits, 30)),
            Updated(Numbered(NearMarks, 44), Numbered(FarMarks, 51)))

BaseOf ==
    Updated(Updated(Paired(Capitals, Letters), Paired(DigitMarks, Digits)), Paired(Symbols, Bases))
Shifted == [c \in DOMAIN BaseOf |-> Plain[BaseOf[c]]]

-----------------------------------------------------------------------------
(* The steps of a token, a round and a switch.                             *)

Press(mod, key) == [kind |-> "report", mod |-> mod, key |-> key, span |-> 0]
Rest(span) == [kind |-> "pause", mod |-> 0, key |-> 0, span |-> span]
Bad == [kind |-> "bad", mod |-> 0, key |-> 0, span |-> 0]

\* Mutant: the key is not let go between two taps.
TapHeld(mod, key) == <<Press(mod, key), Rest(3), Rest(6)>>
Tap(mod, key) == <<Press(mod, key), Rest(3), Press(0, 0), Rest(6)>>

CharSteps(c) ==
    CASE c \in DOMAIN Plain -> Tap(0, Plain[c])
      [] c \in DOMAIN Shifted \ DOMAIN Plain -> Tap(2, Shifted[c])
      [] OTHER -> <<Bad>>

ChordSteps(key) ==
    CASE key \in DOMAIN Named -> Tap(5, Named[key])
      [] key \in DOMAIN Plain \ DOMAIN Named -> Tap(5, Plain[key])
      [] OTHER -> <<Bad>>

\* HidKeyboard.pause takes no negative time; "type" goes on by the character.
TokenSteps(token) ==
    CASE token.kind = "sleep" -> IF token.arg >= 0 THEN <<Rest(token.arg)>> ELSE <<Bad>>
      [] token.kind = "type" -> <<>>
      [] token.kind = "ctrl-alt-" -> ChordSteps(token.arg)
      [] token.kind = "name" ->
            IF token.arg \in DOMAIN Named THEN Tap(0, Named[token.arg]) ELSE <<Bad>>

HoldRound(key) == <<Press(0, key), Rest(16), Press(0, 0), Rest(4)>>

DigitOf(channel) == 29 + channel

SwitchTap(mod, key) == <<Press(mod, key), Rest(3), Press(0, 0)>>
SwitchSteps(channel) ==
    <<Press(0, 0)>> \o SwitchTap(1, 0) \o <<Rest(10)>> \o SwitchTap(1, 0) \o <<Rest(10)>>
        \o SwitchTap(0, DigitOf(channel))

-----------------------------------------------------------------------------
Commands ==
    [program : {"type"}, tokens : Typings]
        \cup {[program |-> "hold", key |-> h.key, span |-> h.span] : h \in Holds}
        \cup [program : {"switch"}, channel : ChannelKeys]

HsInit ==
    /\ command \in Commands
    /\ ending = "new" /\ tokensLeft = <<>> /\ charsLeft = <<>> /\ strokes = <<>> /\ holdEnd = 0
    /\ clock = 0 /\ down \in Leftovers /\ heard = <<>> /\ upSince = 0

\* Arguments are checked before the lock is taken.
Accepted ==
    CASE command.program = "type" -> command.tokens # <<>>
      [] command.program = "hold" -> command.key \in 0 .. 255 /\ command.span > 0
      [] command.program = "switch" -> command.channel \in 1 .. 8

RefuseArguments ==
    /\ ending = "new" /\ ~Accepted
    /\ ending' = "refused"
    /\ UNCHANGED <<command, tokensLeft, charsLeft, strokes, holdEnd, clock, down, heard, upSince>>

FirstNeutral == <<Press(0, 0)>>

StartProgram ==
    /\ ending = "new" /\ Accepted
    /\ ending' = "running"
    /\ tokensLeft' = IF command.program = "type" THEN command.tokens ELSE <<>>
    /\ strokes' = CASE command.program = "type" -> FirstNeutral
                    [] command.program = "hold" -> <<>>
                    [] command.program = "switch" -> SwitchSteps(command.channel)
    /\ holdEnd' = IF command.program = "hold" THEN clock + command.span ELSE 0
    /\ UNCHANGED <<command, charsLeft, clock, down, heard, upSince>>

NextToken ==
    /\ ending = "running" /\ strokes = <<>> /\ charsLeft = <<>> /\ tokensLeft # <<>>
    /\ strokes' = TokenSteps(Head(tokensLeft))
    /\ charsLeft' = IF Head(tokensLeft).kind = "type" THEN Head(tokensLeft).arg ELSE <<>>
    /\ tokensLeft' = Tail(tokensLeft)
    /\ UNCHANGED <<command, ending, holdEnd, clock, down, heard, upSince>>

NextChar ==
    /\ ending = "running" /\ strokes = <<>> /\ charsLeft # <<>>
    /\ strokes' = CharSteps(Head(charsLeft))
    /\ charsLeft' = Tail(charsLeft)
    /\ UNCHANGED <<command, ending, tokensLeft, holdEnd, clock, down, heard, upSince>>

RoundDue == clock < holdEnd

NextRound ==
    /\ ending = "running" /\ strokes = <<>> /\ command.program = "hold" /\ RoundDue
    /\ strokes' = HoldRound(command.key)
    /\ UNCHANGED <<command, ending, tokensLeft, charsLeft, holdEnd, clock, down, heard, upSince>>

\* The other end: a report that holds something new is heard.
Hears(report) ==
    /\ down' = report
    /\ heard' = IF report \notin {Off, down} THEN Append(heard, report) ELSE heard
    /\ upSince' = IF report = Off THEN clock ELSE upSince

StrokeSent ==
    /\ ending = "running" /\ strokes # <<>> /\ Head(strokes).kind = "report"
    /\ Hears([mod |-> Head(strokes).mod, key |-> Head(strokes).key])
    /\ strokes' = Tail(strokes)
    /\ UNCHANGED <<command, ending, tokensLeft, charsLeft, holdEnd, clock>>

StrokePaused(late) ==
    /\ ending = "running" /\ strokes # <<>> /\ Head(strokes).kind = "pause"
    /\ clock' = clock + Head(strokes).span + late
    /\ strokes' = Tail(strokes)
    /\ UNCHANGED <<command, ending, tokensLeft, charsLeft, holdEnd, down, heard, upSince>>

\* The neutral report of HidKeyboard.__exit__.
LeaveWith(result) ==
    /\ Hears(Off)
    /\ ending' = result
    /\ strokes' = <<>> /\ tokensLeft' = <<>> /\ charsLeft' = <<>>
    /\ UNCHANGED <<command, holdEnd, clock>>

BadStroke ==
    /\ ending = "running" /\ strokes # <<>> /\ Head(strokes).kind = "bad"
    /\ LeaveWith("bad")

SignalStops == ending = "running" /\ LeaveWith("stopped")

ProgramEnds ==
    /\ ending = "running" /\ strokes = <<>> /\ charsLeft = <<>> /\ tokensLeft = <<>>
    /\ ~(command.program = "hold" /\ RoundDue)
    /\ LeaveWith("ok")

HsNext ==
    \/ RefuseArguments \/ StartProgram \/ NextToken \/ NextChar \/ NextRound
    \/ StrokeSent \/ (\E late \in 0 .. MaxSlack : StrokePaused(late))
    \/ BadStroke \/ SignalStops \/ ProgramEnds

HsSpec == HsInit /\ [][HsNext]_svars

-----------------------------------------------------------------------------
(* Properties.                                                             *)

HsTypeOK ==
    /\ command \in Commands
    /\ ending \in {"new", "running", "ok", "refused", "bad", "stopped"}
    /\ \A i \in DOMAIN strokes : strokes[i].kind \in {"report", "pause", "bad"}
    /\ down.mod \in 0 .. 255 /\ down.key \in 0 .. 255
    /\ upSince <= clock

\* The usage table of the HID standard from code 4 on, and what Shift makes of it.
Usage ==
    Letters \o Digits \o <<"enter", "esc", "bksp", "tab", "blank", "-", "=", "[", "]", "\\",
        "nonus", "semicolon", "'", "backtick", "comma", ".", "/", "capslock">> \o FKeys
        \o <<"printscreen", "scrolllock", "pause", "ins", "home", "pgup", "del", "end", "pgdn",
             "right", "left", "down", "up">>
UsageShifted == Capitals \o DigitMarks \o <<"enter", "esc", "bksp", "tab", "blank", "underscore", "+", "lbrace", "rbrace",
                   "|", "nonus", ":", "dquote", "~", "<", ">", "?">>

Reading(report) ==
    CASE report.mod = 0 /\ report.key \in 4 .. 82 -> <<"key", Usage[report.key - 3]>>
      [] report.mod = 2 /\ report.key \in 4 .. 56 -> <<"key", UsageShifted[report.key - 3]>>
      [] report.mod = 5 /\ report.key \in 4 .. 82 -> <<"ctrl-alt", Usage[report.key - 3]>>
      [] report = [mod |-> 1, key |-> 0] -> <<"ctrl", "alone">>
      [] OTHER -> <<"code", report.key>>

Glyph(name) == IF name = "space" THEN "blank" ELSE name
Wished(token) ==
    CASE token.kind = "sleep" -> <<>>
      [] token.kind = "type" -> [i \in DOMAIN token.arg |-> <<"key", token.arg[i]>>]
      [] token.kind = "ctrl-alt-" -> <<<<"ctrl-alt", Glyph(token.arg)>>>>
      [] token.kind = "name" -> <<<<"key", Glyph(token.arg)>>>>

\* The parts one after the other, up to each of them.
SoFar(parts) ==
    LET upTo[n \in 0 .. Len(parts)] == IF n = 0 THEN <<>> ELSE upTo[n - 1] \o parts[n]
    IN upTo

\* What the command line asks the other end to hear; a hold is every round the same.
Meant ==
    CASE command.program = "type" ->
            SoFar([i \in DOMAIN command.tokens |-> Wished(command.tokens[i])])[Len(command.tokens)]
      [] command.program = "switch" ->
            <<<<"ctrl", "alone">>, <<"ctrl", "alone">>, <<"key", Digits[command.channel]>>>>
      [] command.program = "hold" ->
            [i \in DOMAIN heard |-> Reading([mod |-> 0, key |-> command.key])]

\* "Send paced keystrokes": at every moment the other end has heard, in order, the
\* beginning of what was asked for, whatever was down before, and after exit code 0
\* all of it: the repeated and the shifted characters, and Ctrl, Ctrl, digit for the
\* KVM.  A refused command sends nothing.
HearsWhatIsAsked ==
    /\ ending \in {"new", "refused"} => heard = <<>>
    /\ Accepted => LET said == [i \in DOMAIN heard |-> Reading(heard[i])]
                   IN /\ IsPrefix(said, Meant)
                      /\ ending = "ok" => said = Meant

\* "Reassert one HID key through POST for a bounded number of seconds": while the hold
\* runs the key is down, or was let go at most 0.1 s (and a late timer) ago; every press
\* begins within the time asked for, so that the last ends half a second after it.
HoldIsKept ==
    command.program = "hold" /\ command.key # 0 /\ ending = "running" /\ heard # <<>> =>
        /\ down = Off => clock <= upSince + 4 + MaxSlack
        /\ clock < holdEnd + 20 + 2 * MaxSlack

\* The other end hears what was to be typed, and a held key as long as was asked.
ScriptsSafe == HsTypeOK /\ HearsWhatIsAsked /\ HoldIsKept
=============================================================================
