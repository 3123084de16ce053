------------------------------- MODULE MCHost -------------------------------
EXTENDS Host

\* Two devices, the first one listed first.
MCDevices == <<"mac1", "mac2">>

\* Keys as they are, a dotted one, and one with a space.
BareKeys ==
  {"flipper_mac", "tmux_bridge_enabled", "patterns", "claude", "Claude", "codex",
   "running", "NEEDS_INPUT", "note", "label", "led_rgb", "vibra_sequence", "0", "x"}
MCKeys == BareKeys \union {"patterns.codex", "claude.running", "my key"}
MCReads ==
  [key \in MCKeys |->
     CASE key = "patterns.codex" -> <<"patterns", "codex">>
       [] key = "claude.running" -> <<"claude", "running">>
       [] key = "my key"         -> <<>>
       [] OTHER                  -> <<key>>]

Running(agent) == <<"patterns", agent, "running">>

User(table, key, type) == Entry(table, key, type, "user")
Table(path) == Entry(Front(path), Last(path), "table", "")
Bridge == User(<<>>, "tmux_bridge_enabled", "bool")

\* The configuration of README.md:119-134.
ReadmeDoc ==
  <<Mac("mac1"), Bridge,
    Table(<<"patterns">>), Table(<<"patterns", "claude">>), Table(Running("claude")),
    User(Running("claude"), "label", "str"),
    User(Running("claude"), "led_rgb", "list"),
    User(Running("claude"), "vibra_sequence", "list")>>

ReadmeDocs == {ReadmeDoc}

\* One the daemon starts with, and one that pairing breaks.
HostDocs ==
  {<<Mac("mac1"), Bridge>>, <<Mac("mac1"), User(<<>>, "my key", "str")>>}

\* Nothing, or one of these entries.
Optional(entries) == {<<>>} \union {<<e>> : e \in entries}

\* An agent's table with the label of a state and one value of each type below
\* it; and perhaps a setting of the agent below the state, where a dotted key
\* puts it in the dict: one that the state has as well, or not.
AgentDocs ==
  {<<Bridge, Table(<<"patterns">>), Table(<<"patterns", "claude">>),
     Table(Running("claude")), User(Running("claude"), "label", "str")>>
     \o led \o below :
       led \in Optional({User(Running("claude"), "led_rgb", type) :
                          type \in Types \ {"table"}}),
       below \in Optional({User(<<"patterns", "claude">>, key, "int") :
                            key \in {"label", "note"}})}

\* A colour that is a table of a number, or of another key, or empty.
TableDocs ==
  {<<Mac("mac1"), Table(<<"patterns">>), Table(<<"patterns", "Claude">>),
     Table(<<"patterns", "Claude", "NEEDS_INPUT">>),
     Table(<<"patterns", "Claude", "NEEDS_INPUT", "led_rgb">>)>> \o inside :
       inside \in Optional({User(<<"patterns", "Claude", "NEEDS_INPUT", "led_rgb">>,
                                 key, "int") : key \in {"0", "x"}})}

\* Keys that need quotes: at the top level or in a table, for a setting or a
\* table, with a setting and another table below it.
QuotedDocs ==
  {<<User(<<>>, top, "int"), Table(<<"patterns">>)>>
     \o inside
     \o <<User(<<"patterns">>, "note", "int"), Table(<<table>>),
          User(<<table>>, "label", "str"), User(<<>>, "x", "int")>> :
       top \in {"note", "my key", "patterns.codex"},
       inside \in {<<>>,
                   <<User(<<"patterns">>, "claude.running", "list")>>,
                   <<Table(<<"patterns", "claude.running">>),
                     User(<<"patterns", "claude.running">>, "note", "str")>>},
       table \in {"claude", "codex", "claude.running", "patterns.codex"}}

MCDocs ==
  HostDocs \union AgentDocs \union TableDocs
    \union {doc \in QuotedDocs : ~Duplicates(doc)}

\* What HostDocs are and become.
HostConfigs ==
  {Absent, Broken, Toml(<<>>)}
    \union {Toml(doc) : doc \in HostDocs}
    \union {SaveMac(doc, a) : doc \in HostDocs \union {<<>>}, a \in ToSet(Devices)}

\* Bound: processes run with the documents of HostDocs; the others come and go
\* while nothing has been started.
MCSpec ==
  Init /\ [][Next /\ (SocketInit' \/ config' \in HostConfigs)]_vars /\ Fairness

\* What the documents become is a document again, and without dotted keys the
\* dict that tomllib builds has the order of the lines.
ASSUME WrittenAndRead ==
  \A doc \in Docs, address \in ToSet(Devices) :
    LET lines == Lines(doc, address)
        once  == Read(lines)
    IN  /\ Document(once.doc)
        /\ Bare(lines) /\ Loadable(once) =>
             ~Conflict(lines) /\ Merged(lines) = InOrder(lines)
        /\ Bare(lines) /\ Duplicates(InOrder(lines)) => Conflict(lines)

\* No process is killed.
CalmSpec == Init /\ [][Next /\ ~\E d \in Daemons : Crash(d)]_vars
=============================================================================
