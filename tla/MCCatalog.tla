----------------------------- MODULE MCCatalog -----------------------------
(* One tool, two callers and a pool of one thread; short histories of the   *)
(* file tool, small paths, vaults and texts, for TLC.                      *)
EXTENDS Catalog, TLC

Sandbox == INSTANCE Sandbox
Native == INSTANCE NativeTools

CONSTANTS t1, c1, c2

Paths ==
  [absolute : BOOLEAN, parts : UNION {[1..n -> {"a", "b", Sandbox!Parent}] : n \in 0..3}]

ASSUME \A path \in Paths, roots \in {<<>>, <<<<"w">>>>, <<<<"w", "a">>, <<"b">>>>} :
  Sandbox!ConfinesToRoots(roots, path)

Letters(most) == UNION {[1..n -> {"x", "y"}] : n \in 1..most}

ASSUME \A u \in Letters(3), v \in Letters(3), text \in Letters(6) :
  Sandbox!Scrubs([k \in {"u", "v"} |-> IF k = "u" THEN u ELSE v], text, 2)

\* A key is set once.
ASSUME \A u, v \in Letters(2) :
  LET vault == Sandbox!SetSecret([k \in {} |-> u], "k", u)
  IN  Sandbox!SetSecret(vault, "k", v) = vault

Places == {<<>>, <<"a">>, <<"b">>, <<"a", "b">>, <<"b", "a", "a">>}
FileCalls ==
  {[op |-> op, path |-> [absolute |-> FALSE, parts |-> place], content |-> Native!Directory] :
     op \in {"read", "list"}, place \in Places}
  \cup {[op |-> "write", path |-> [absolute |-> FALSE, parts |-> place],
         content |-> [text |-> "new", size |-> size]] :
          place \in Places, size \in Native!Short..Native!Huge}
  \cup {[op |-> "write", path |-> [absolute |-> FALSE, parts |-> <<Native!Parent, "a">>],
         content |-> [text |-> "new", size |-> Native!Short]]}

ASSUME \A n \in 1..3 : \A calls \in [1..n -> FileCalls] : Native!FaithfulFiles(calls)
ASSUME \A command \in SUBSET {"mkfs", "shutdown", "> /dev/sda", "reboot", "ls"} :
  Native!TerminalIsStricter(command)
============================================================================
