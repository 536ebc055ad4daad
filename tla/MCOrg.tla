------------------------------- MODULE MCOrg -------------------------------
(***************************************************************************)
(* An org's delegations, its concierge and its import, for TLC: a          *)
(* behaviour is that of the delegation ledger (DelegationLedger), of the   *)
(* concierge's row, box and credentials (ConciergeRoot) or of imports of a *)
(* template (OrgImport).  The modules share no state; those that are not   *)
(* chosen rest in an initial state.                                        *)
(***************************************************************************)
EXTENDS DelegationLedger, ConciergeRoot, OrgImport

VARIABLE act

orgVars == <<vars, conciergeVars, importVars, act>>

\* Who writes the concierge's row: an install beside a repair; an install
\* beside a create and a changed plugin list; a server that boots beside a
\* repair; the owner's picks beside a repair; repairs and crashes that mint.
RootCast == [install |-> {"cp", "ensure"}, move |-> {"cp"}, boot |-> {"boot", "ensure"},
             pick |-> {"ensure"}, mint |-> {"ensure"}]
RootActs == DOMAIN RootCast

\* Which templates are imported: by two calls at once; while the lead is
\* deleted; twice by one caller, with a failed statement or a process restart;
\* with an external part that moves; with any required secrets.
ImportActs == {"pair", "cut", "solo", "fetch", "check"}
Node(kind, spawning, valid, schedules) ==
    [kind |-> kind, spawning |-> spawning, valid |-> valid, schedules |-> schedules]
Twice == <<[slug |-> "s", ok |-> TRUE], [slug |-> "s", ok |-> TRUE]>>
Team2(dev) == [lead |-> Node("agent", TRUE, TRUE, <<>>), dev |-> dev]
Unspawned == [n \in Nodes |-> Node("mock", FALSE, TRUE, <<>>)]
ImportScene ==
    /\ org \in CASE act = "pair" -> {Team2(Node(k, s, v, Twice)) :
                                         k \in {"agent", "external"}, s, v \in BOOLEAN}
                 [] act = "cut" -> {Team2(Node("external", TRUE, TRUE, <<>>))}
                 [] act = "solo" -> {Team2(Node(k, s, TRUE, Twice)) : k \in {"agent", "mock"}, s \in BOOLEAN}
                 [] OTHER -> {Unspawned}
    /\ anchored \in IF act = "pair" THEN BOOLEAN ELSE {act \in {"cut", "solo"}}
    /\ external = (act = "fetch")
    /\ needs \in IF act = "check" THEN {R \in SUBSET EnvGroups : Cardinality(R) <= 3} ELSE {{}}
    /\ globals \in IF act = "check" THEN SUBSET EnvNames ELSE {{}}
    /\ ImportInit
    /\ act \notin {"pair", "solo"} => orgRows[1].status = "absent"
\* A row is deleted where that is the point; faults befall a lone caller.
ImportMoves ==
    /\ act \in ImportActs /\ ImportNext
    /\ act # "cut" => orgDeletes' = 0
    /\ act # "solo" => importFaults' = 0
    /\ act \in {"solo", "check"} => \E i \in Importers : \A j \in Importers \ {i} : call'[j] = NoCall /\ call[j] = NoCall

PlainOrg == [org |-> TRUE, claude |-> FALSE, base |-> TRUE, persona |-> "file"]

OrgInit ==
    /\ act \in RootActs \union ImportActs \union {"ledger"}
    /\ ImportScene
    /\ Init /\ ConciergeInit /\ (act # "ledger" => pushing)
    /\ act # "boot" => world = PlainOrg
    /\ act # "move" => listed = {}
    /\ act \in {"install", "move", "ledger"} \union ImportActs => stored = "p1"
    /\ act = "move" => wsRow[Canonical] = Absent /\ wsRow[Foreign].status \in {"absent", "online", "removed"}
    /\ act = "boot" => /\ ~world.org /\ stored = "p1"
                       /\ wsRow[Canonical].status \in {"online", "removed"}
                       /\ wsRow[Canonical].status = "removed" => world.persona = "file"
                       /\ world.base \/ (world.persona = "file" /\ ~world.claude)
    /\ act \in {"pick", "mint"} => stored # "p1" /\ wsRow[Canonical].status = "online"
    /\ act \notin RootActs => \A n \in Rows \ {Team} : wsRow[n] = Absent

\* What each act leaves out: a pick meets no failed statement, no delete and
\* no crash of a provision; the others change no model.
ActKeeps ==
    /\ act = "install" => (rebootDue' => rebootDue)
    /\ act \in {"install", "boot", "mint"} => writer'["ensure"].model = NoModel
    /\ act = "mint" => UNCHANGED <<stored, default>>
    /\ act \in {"pick", "mint"} => wsRow'[Canonical].status # "removed"
    /\ act = "pick" =>
          /\ conciergeFaults' = 0
          /\ writer'["ensure"].pc # "idle" => writer'["ensure"].model = "p2" /\ stored # "p2"
          /\ provision'.pc = "idle" => provision.pc \in {"idle", "compose"}
    /\ \A w \in RootWriters \ RootCast[act] : writer'[w].pc = "idle"

ConciergeMoves ==
    \/ act \in RootActs /\ RootNext
    \/ act = "move" /\ OrgNext
    \/ act \in {"pick", "mint"} /\ AgentNext
    \/ act = "boot" /\ ProvisionStep

OrgStep ==
    \/ act = "ledger" /\ Next /\ UNCHANGED <<conciergeVars, importVars, act>>
    \/ ConciergeMoves /\ ActKeeps /\ UNCHANGED <<vars, importVars, act>>
    \/ ImportMoves /\ UNCHANGED <<vars, conciergeVars, act>>

\* The fairness of the ledger and of the imports, each for the behaviours that
\* are its own.
OrgFairness ==
    /\ \A p \in Procs : WF_vars(act = "ledger" /\ (SetStatusStep(p) \/ ReplyStep(p)))
    /\ \A w \in Writers : WF_vars(act = "ledger" /\ ExecutorStep(w))
    /\ \A i \in Importers : WF_importVars(act \in ImportActs /\ ImportStep(i))
    /\ WF_importVars(act \in ImportActs /\ ProvisionEnds)
    /\ WF_vars(act = "ledger" /\ (Sweep \/ \E c \in todo : SweepRow(c)))

OrgSpec == OrgInit /\ [][OrgStep]_orgVars /\ OrgFairness

=============================================================================
