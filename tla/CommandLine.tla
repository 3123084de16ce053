---------------------------- MODULE CommandLine ----------------------------
(***************************************************************************)
(* The line that `flipper-indicator notify` writes to the socket (cli.py)  *)
(* and what the socket server reads of it (socket_server.py).              *)
(*                                                                         *)
(* A line is a sequence of symbols, each the bytes of one character or of  *)
(* a word: "agent=<name>", "state=<name>" or "text=".                      *)
(***************************************************************************)
EXTENDS Protocol, FiniteSetsExt

Sp == <<32>>
Nl == <<10>>

\* "agent=" and claude, codex, opencode or generic.
AgentWord(agent) ==
  CASE agent = 0   -> <<97, 103, 101, 110, 116, 61, 99, 108, 97, 117, 100, 101>>
    [] agent = 1   -> <<97, 103, 101, 110, 116, 61, 99, 111, 100, 101, 120>>
    [] agent = 2   -> <<97, 103, 101, 110, 116, 61, 111, 112, 101, 110, 99, 111, 100, 101>>
    [] agent = 255 -> <<97, 103, 101, 110, 116, 61, 103, 101, 110, 101, 114, 105, 99>>

\* "state=" and off, running, needs-input or done.
StateWord(state) ==
  CASE state = 0 -> <<115, 116, 97, 116, 101, 61, 111, 102, 102>>
    [] state = 1 -> <<115, 116, 97, 116, 101, 61, 114, 117, 110, 110, 105, 110, 103>>
    [] state = 2 -> <<115, 116, 97, 116, 101, 61, 110, 101, 101, 100, 115, 45, 105, 110,
                      112, 117, 116>>
    [] state = 3 -> <<115, 116, 97, 116, 101, 61, 100, 111, 110, 101>>

TextWord == <<116, 101, 120, 116, 61>>

AgentWords == {AgentWord(agent) : agent \in AgentIds}
StateWords == {StateWord(state) : state \in States}

\* The line of notify, as it is sent.
NotifyLine(agent, state, text) ==
  <<AgentWord(agent), Sp, StateWord(state)>>
    \o (IF text = <<>> THEN <<>> ELSE <<Sp, TextWord>> \o text)
    \o <<Nl>>

\* StreamReader.readline: up to the first line break, or what there is.
readline(sent) ==
  LET breaks == {i \in DOMAIN sent : sent[i] = Nl}
  IN  IF breaks = {} THEN sent ELSE SubSeq(sent, 1, Min(breaks))

\* The bytes of the character that begins with byte b.
Width(b) ==
  CASE b \in 0..191   -> 1
    [] b \in 192..223 -> 2
    [] b \in 224..239 -> 3
    [] OTHER          -> 4

\* U+FFFD.
Replacement == <<239, 191, 189>>

\* raw.decode("utf-8", errors="replace")
Decoded(raw) ==
  [i \in DOMAIN raw |->
     IF Len(raw[i]) < Width(raw[i][1]) THEN Replacement ELSE raw[i]]

\* What str.strip takes for a space: the control characters of str.isspace,
\* U+0085, U+00A0, U+1680, U+2000 to U+200A, U+2028, U+2029, U+202F, U+205F
\* and U+3000.
Blanks ==
  {<<b>> : b \in (9..13) \union (28..32)}
    \union {<<194, 133>>, <<194, 160>>, <<225, 154, 128>>}
    \union {<<226, 128, b>> : b \in (128..138) \union {168, 169, 175}}
    \union {<<226, 129, 159>>, <<227, 128, 128>>}

\* str.strip
Strip(line) ==
  LET ink == {i \in DOMAIN line : line[i] \notin Blanks}
  IN  IF ink = {} THEN <<>> ELSE SubSeq(line, Min(ink), Max(ink))

ParseError == [kind |-> "error"]

\* Tokens end at a space; what is blank after one is skipped (lstrip).
Skipped(s, i) == \E j \in 1..i : s[j] = Sp /\ \A k \in j..i : s[k] \in Blanks
Starts(s, i) == ~Skipped(s, i) /\ (i = 1 \/ Skipped(s, i - 1))

\* The symbol at i is a token of its own.
Token(s, i) == Starts(s, i) /\ (i = Len(s) \/ s[i + 1] = Sp)

\* parse_line, with the states it may fall back on.
ParseLineOr(line, fallback) ==
  LET s      == Strip(line)
      texts  == {i \in DOMAIN s : s[i] = TextWord /\ Starts(s, i)}
      end    == IF texts = {} THEN Len(s) + 1 ELSE Min(texts)
      tokens == {i \in 1..(end - 1) : ~Skipped(s, i)}
      agents == {i \in tokens : s[i] \in AgentWords}
      states == {i \in tokens : s[i] \in StateWords}
      given  == IF states = {} THEN fallback
                ELSE {state \in States : StateWord(state) = s[Max(states)]}
  IN  IF \/ \E i \in tokens :
              ~Token(s, i) \/ s[i] \notin AgentWords \union StateWords
         \/ agents = {} \/ given = {}
      THEN ParseError
      ELSE Notify(CHOOSE agent \in AgentIds : AgentWord(agent) = s[Max(agents)],
                  CHOOSE state \in given : TRUE,
                  SubSeq(s, end + 1, Len(s)))

\* (Mutant: without a state, "off" is meant.)
ParseLineLenient(line) == ParseLineOr(line, {0})

\* parse_line: words in any order, the last one of a kind counts; "text="
\* takes the rest of the line.  All else is an error.
parse_line(line) == ParseLineOr(line, {})

\* What _handle puts on the notify queue when it has read `sent`.
Received(sent) == parse_line(Decoded(readline(sent)))
=============================================================================
