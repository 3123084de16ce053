----------------------------- MODULE ConfigStore -----------------------------
(***************************************************************************)
(* The configuration file: what `load` and PatternTable make of it, and    *)
(* how `pair` rewrites it with a TOML writer of its own (config.py,        *)
(* patterns.py, cli.py).                                                   *)
(*                                                                         *)
(* A document is the sequence of the entries of the parsed dict, depth     *)
(* first: settings and tables, each a key in a table (<<>> at the top      *)
(* level) with a value that is told apart by its type.                     *)
(***************************************************************************)
EXTENDS Integers, Sequences, SequencesExt, FiniteSetsExt

CONSTANTS
  Keys,        \* names of settings and of tables
  Reads,       \* the path of keys that a key is read as when it is written
               \* without quotes: <<"a", "b">> for "a.b", <<>> for what is no
               \* TOML.  Keys with "=", "#", brackets or line breaks are left
               \* out: they could make another line.
  AgentNames,  \* keys that are, in capitals, the name of an AgentId
  StateNames,  \* keys that are that of a State, with "-" for "_"
  Numerals,    \* keys that are numbers to int()
  Values,      \* what a setting may be given: "" is false to Python
  Docs,        \* documents a user may write
  Devices      \* addresses scan_devices found, in the order pair lists them

VARIABLES
  config,   \* the file: its state, and its document if it is "toml"
  writing   \* what save_mac has still to write, once it truncated the file

configVars == <<config, writing>>

Absent == [state |-> "absent", doc |-> <<>>]
Broken == [state |-> "broken", doc |-> <<>>]
Toml(doc) == [state |-> "toml", doc |-> doc]

\* Types by what becomes of the values.  "digits" is a string of digits or an
\* empty one, "ctrl" one with a line break or another control character but
\* the tab, "str" any other.  The items of a "list" are numbers to int(), those
\* of a "badlist" are not all.  "other" is a date or a time.
Types ==
  {"str", "digits", "ctrl", "bool", "int", "float", "list", "badlist", "other",
   "table"}

Entry(table, key, type, val) ==
  [table |-> table, key |-> key, type |-> type, val |-> val]

Entries(keys) == [table : Seq(keys), key : keys, type : Types, val : Values]

Path(s) == Append(s.table, s.key)
IsTable(s) == s.type = "table"

Mac(address) == Entry(<<>>, "flipper_mac", "str", address)

IsMac(s) == s.table = <<>> /\ s.key = "flipper_mac"

ConfigInit ==
  /\ config = Absent
  /\ writing = <<>>

-----------------------------------------------------------------------------
(* Reading.                                                                *)

\* load raises no TOMLDecodeError.
Loadable(c) == c.state # "broken"

HasMac(c) == \E s \in ToSet(c.doc) : IsMac(s) /\ s.val # ""

\* PatternTable raises nothing.  It skips agents and states it does not
\* know; the colour and the vibration of the others must be iterable (a string
\* and a table are), and what they yield must be numbers.
PatternsLoad(doc) ==
  \A s \in ToSet(doc) :
    /\ Len(s.table) = 3
    /\ s.table[1] = "patterns"
    /\ s.table[2] \in AgentNames
    /\ s.table[3] \in StateNames
    /\ s.key \in {"led_rgb", "vibra_sequence"}
    => \/ s.type \in {"list", "digits"}
       \/ IsTable(s) /\ \A t \in ToSet(doc) : t.table = Path(s) => t.key \in Numerals

\* `serve` gets as far as SocketServer.start.
Startable(c) == Loadable(c) /\ HasMac(c) /\ PatternsLoad(c.doc)

-----------------------------------------------------------------------------
(* Writing.                                                                *)

\* existing["flipper_mac"] = mac
WithMac(doc, address) ==
  IF \E s \in ToSet(doc) : IsMac(s)
  THEN [i \in DOMAIN doc |-> IF IsMac(doc[i]) THEN Mac(address) ELSE doc[i]]
  ELSE Append(doc, Mac(address))

\* The entries at the places `keep`, in their order.
Those(doc, keep) ==
  LET those[n \in 0..Len(doc)] ==
        IF n = 0 THEN <<>>
        ELSE IF n \in keep THEN Append(those[n - 1], doc[n]) ELSE those[n - 1]
  IN  those[Len(doc)]

\* (Mutant: settings and tables are written as they come.)
LinesInDictOrder(doc, address) == WithMac(doc, address)

\* The lines save_mac writes: the settings of the top level first, then the
\* tables, a line with the header and one for each setting, as _render_table
\* meets them.
Lines(doc, address) ==
  LET full == WithMac(doc, address)
      top  == {i \in DOMAIN full : full[i].table = <<>> /\ ~IsTable(full[i])}
  IN  Those(full, top) \o Those(full, DOMAIN full \ top)

\* (Mutant: a bool is tested for after an int, which it is one of: "True".)
WrittenTypeIntFirst(type) ==
  CASE type \in {"int", "float", "digits", "table"} -> type
    [] type \in {"bool", "ctrl"} -> "invalid"
    [] OTHER -> "str"

\* What a value is read back as after _format_toml_value: it knows numbers,
\* Booleans and strings, makes a string of all else (the repr of a list), and
\* leaves control characters as they are, which TOML does not allow.
WrittenType(type) ==
  CASE type \in {"bool", "int", "float", "digits", "table"} -> type
    [] type = "ctrl" -> "invalid"
    [] OTHER -> "str"

-----------------------------------------------------------------------------
(* How tomllib reads the lines.                                            *)

\* The table that a line is in, as it was written: that of the last header.
Header(lines, i) ==
  LET above == {j \in 1..i : IsTable(lines[j])}
  IN  IF above = {} THEN <<>> ELSE Path(lines[Max(above)])

Duplicates(doc) ==
  \E i, j \in DOMAIN doc : i # j /\ Path(doc[i]) = Path(doc[j])

\* All keys are bare, and read as they are written.
Bare(doc) == doc \in Seq(Entries({k \in Keys : Reads[k] = <<k>>}))

\* Without dotted keys a dict has the entries in the order of the lines.
InOrder(lines) ==
  [i \in DOMAIN lines |->
     IF IsTable(lines[i]) THEN lines[i]
     ELSE Entry(Header(lines, i), lines[i].key, WrittenType(lines[i].type),
                lines[i].val)]

\* The path line i is for, when its keys may have dots in them.
ReadPath(path) == FlattenSeq([n \in DOMAIN path |-> Reads[path[n]]])
Name(lines, i) ==
  ReadPath(IF IsTable(lines[i]) THEN Path(lines[i])
           ELSE Append(Header(lines, i), lines[i].key))

\* The tables line i declares: the one it is the header of, or those that the
\* dots of its key stand for.
Declared(lines, i) ==
  IF IsTable(lines[i]) THEN {Name(lines, i)}
  ELSE {p \in Prefixes(Name(lines, i)) :
          Len(p) > Len(ReadPath(Header(lines, i))) /\ p # Name(lines, i)}

\* A line is no TOML, or names a setting as a table or once more, or declares
\* a table that another section has declared.
Conflict(lines) ==
  \/ \E s \in ToSet(lines) : \E n \in DOMAIN Path(s) : Reads[Path(s)[n]] = <<>>
  \/ \E i, j \in DOMAIN lines :
       /\ i # j
       /\ \/ ~IsTable(lines[i]) /\ IsPrefix(Name(lines, i), Name(lines, j))
          \/ /\ Header(lines, i) # Header(lines, j)
             /\ Declared(lines, i) \intersect Declared(lines, j) # {}

\* The dict of lines with dotted keys, depth first: a line adds what is not
\* there yet of its path, at the end of the table it is in.
Merged(lines) ==
  LET paths    == UNION {Prefixes(Name(lines, i)) : i \in DOMAIN lines} \ {<<>>}
      first(p) == Min({i \in DOMAIN lines : IsPrefix(p, Name(lines, i))})
      Before(p, q) ==
        \/ IsStrictPrefix(p, q)
        \/ \E n \in DOMAIN p \intersect DOMAIN q :
             /\ SubSeq(p, 1, n - 1) = SubSeq(q, 1, n - 1)
             /\ first(SubSeq(p, 1, n)) < first(SubSeq(q, 1, n))
      place(p) == 1 + Cardinality({q \in paths : Before(q, p)})
      entry(p) ==
        LET at == {i \in DOMAIN lines : ~IsTable(lines[i]) /\ Name(lines, i) = p}
        IN  IF at = {} THEN Entry(Front(p), Last(p), "table", "")
            ELSE Entry(Front(p), Last(p), WrittenType(lines[Min(at)].type),
                       lines[Min(at)].val)
  IN  [n \in 1..Cardinality(paths) |-> entry(CHOOSE p \in paths : place(p) = n)]

\* What the next tomllib.load makes of the lines.
Read(lines) ==
  IF \/ \E s \in ToSet(lines) : WrittenType(s.type) = "invalid"
     \/ IF Bare(lines) THEN Duplicates(InOrder(lines)) ELSE Conflict(lines)
  THEN Broken
  ELSE Toml(IF Bare(lines) THEN InOrder(lines) ELSE Merged(lines))

SaveMac(doc, address) == Read(Lines(doc, address))

\* A parsed dict has one value for a key, and an entry for each table; the
\* address is not a table.
Document(doc) ==
  /\ doc \in Seq(Entries(Keys))
  /\ ~Duplicates(doc)
  /\ \A i \in DOMAIN doc : IsPrefix(doc[i].table, Header(doc, i - 1))
  /\ \A s \in ToSet(doc) : IsMac(s) => ~IsTable(s)

ASSUME ConfigAssumption ==
  /\ Reads \in [Keys -> Seq(Keys)]
  /\ "flipper_mac" \in Keys /\ Reads["flipper_mac"] = <<"flipper_mac">>
  /\ "" \in Values
  /\ \A doc \in Docs : Document(doc)
  /\ Devices \in Seq(Values \ {""})

-----------------------------------------------------------------------------
(* pair, and the user.                                                     *)

\* devices[int(raw) - 1] of pair, if that raises neither ValueError nor
\* IndexError: a Python index may be negative.
Picks(raw) == raw - 1 \in -Len(Devices)..(Len(Devices) - 1)

Picked(raw) ==
  Devices[IF raw >= 1 THEN raw ELSE Len(Devices) + raw]

\* pair, up to the truncation of the file by write_text.
Pair(raw) ==
  /\ writing = <<>>
  /\ Picks(raw)
  /\ Loadable(config)
  /\ writing' = <<SaveMac(config.doc, Picked(raw))>>
  /\ config' = Toml(<<>>)

\* write_text has written the file.
PairWrites ==
  /\ writing # <<>>
  /\ config' = writing[1]
  /\ writing' = <<>>

\* The process is killed in between.
PairDies ==
  /\ writing # <<>>
  /\ writing' = <<>>
  /\ UNCHANGED config

\* The user edits the file, or removes it.
Edit ==
  /\ writing = <<>>
  /\ config' \in {Absent} \union {Toml(doc) : doc \in Docs}
  /\ UNCHANGED writing

ConfigNext ==
  \/ \E raw \in -(Len(Devices) + 1)..(Len(Devices) + 1) : Pair(raw)
  \/ PairWrites
  \/ PairDies
  \/ Edit

-----------------------------------------------------------------------------
(* Properties.                                                             *)

\* Keys, values and places the hand-written writer handles.
Plain(doc) ==
  /\ Document(doc) /\ Bare(doc)
  /\ \A i \in DOMAIN doc :
       /\ doc[i].type \in {"str", "digits", "bool", "int", "float", "table"}
       /\ doc[i].table = <<>> \/ IsTable(doc[i]) \/ doc[i].table = Header(doc, i)

\* Pairing keeps every other setting, its type and its table, in a
\* configuration of bare keys, strings without control characters, Booleans and
\* numbers, each below the header of its table (test_save_mac_preserves_other_
\* fields, test_config.py:61), and the file it makes loads again.
PairKeepsSettings ==
  [][\A new \in ToSet(writing') :
       writing = <<>> /\ Plain(config.doc) =>
         /\ Loadable(new)
         /\ HasMac(new)
         /\ {s \in ToSet(new.doc) : ~IsMac(s)}
              = {s \in ToSet(config.doc) : ~IsMac(s)}]_configVars

\* Pairing may move a setting into the sub-table above it, but not again: what
\* save_mac writes of a configuration with bare keys is, once read, written in
\* the same way (config.py:78-120).  A dotted key loses its dot in the first
\* pairing; what that leaves is such a configuration.
PairTwice ==
  \A address \in ToSet(Devices) :
    LET once == SaveMac(config.doc, address)
    IN  Bare(config.doc) /\ Loadable(once) => SaveMac(once.doc, address) = once

\* Pairing never turns a configuration with which the daemon starts into one
\* with which it does not ("Write or update flipper_mac in the config file",
\* config.py:79).
PairNeverBreaksDaemon ==
  [][\A new \in ToSet(writing') :
       writing = <<>> /\ PatternsLoad(config.doc) => Startable(new)]_configVars
=============================================================================
