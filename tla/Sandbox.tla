------------------------------ MODULE Sandbox ------------------------------
(***************************************************************************)
(* igris-sandbox: what a Workspace lets an agent touch, and the vault that *)
(* scrubs secrets out of texts.  Pure: every method is a function of its   *)
(* arguments.                                                              *)
(*                                                                         *)
(* A path is whether it is absolute and the sequence of its components.    *)
(* A command is the set of denied patterns in it.  A text is a sequence of *)
(* letters, and the mark "[redacted]" one letter of its own.  Links, which *)
(* the lexical check does not see, are left out.                           *)
(***************************************************************************)
EXTENDS Integers, Sequences, FiniteSets

Parent == ".."
NoPath == <<"none">>
Parts(path) == {path.parts[i] : i \in DOMAIN path.parts}

IsPrefix(s, t) == Len(s) <= Len(t) /\ SubSeq(t, 1, Len(s)) = s

\* Neither absolute nor with a `..` in it.
Confined(path) == ~path.absolute /\ Parent \notin Parts(path)

\* Workspace::confine: joined to the first of the roots, if there is one.
Confine(roots, path) ==
  IF Confined(path) /\ roots # <<>> THEN roots[1] \o path.parts ELSE NoPath

\* denied_commands of Workspace::new.
DeniedCommands == {"rm -rf /", "mkfs", "dd if=", ":(){", "shutdown", "> /dev/sda"}

CheckCommand(command) == command \cap DeniedCommands = {}
CheckNetwork(allowed, needed) == needed => allowed

\* filter_env: an environment is a function from names to values.
FilterEnv(allowed, env) == [name \in DOMAIN env \cap allowed |-> env[name]]

(***************************************************************************)
(* The vault: a function from keys to values.  A blank key is "".          *)
(***************************************************************************)
Mark == "[redacted]"

SetSecret(vault, key, value) ==
  IF key = "" \/ value = <<>> \/ key \in DOMAIN vault THEN vault
  ELSE [k \in DOMAIN vault \cup {key} |-> IF k = key THEN value ELSE vault[k]]

\* str::replace: the occurrences of v from the left, none overlapping.
Replaced(text, v) ==
  LET from[i \in 1..(Len(text) + 1)] ==
        IF i > Len(text) THEN <<>>
        ELSE IF IsPrefix(v, SubSeq(text, i, Len(text)))
             THEN <<Mark>> \o from[i + Len(v)]
             ELSE <<text[i]>> \o from[i + 1]
  IN  from[1]

\* The orders redact may take the values in: the longest first.
LongestFirst(values) ==
  {order \in [1..Cardinality(values) -> values] :
     /\ \A i, j \in DOMAIN order : order[i] = order[j] => i = j
     /\ \A i, j \in DOMAIN order : i < j => Len(order[i]) >= Len(order[j])}

\* What redact() may return, where values shorter than `least` (4) are kept.
Redacted(vault, text, least) ==
  LET After(order) ==
        LET text_[k \in 0..Len(order)] ==
              IF k = 0 THEN text
              ELSE IF Len(order[k]) >= least THEN Replaced(text_[k - 1], order[k])
              ELSE text_[k - 1]
        IN  text_[Len(order)]
  IN  {After(order) : order \in LongestFirst({vault[k] : k \in DOMAIN vault})}

(***************************************************************************)
(* What these promise, for TLC to compare over small inputs.               *)
(***************************************************************************)
\* The place a path leads to.
Resolved(parts) ==
  LET at[i \in 0..Len(parts)] ==
        IF i = 0 THEN <<>>
        ELSE IF parts[i] # Parent THEN Append(at[i - 1], parts[i])
        ELSE IF at[i - 1] = <<>> THEN <<>>
        ELSE SubSeq(at[i - 1], 1, Len(at[i - 1]) - 1)
  IN  at[Len(parts)]

\* confine(): a path that is let through leads below one of the roots, and one
\* that is relative and never goes up is let through.
ConfinesToRoots(roots, path) ==
  LET target == Confine(roots, path)
  IN  IF target = NoPath THEN roots = <<>> \/ path.absolute \/ Parent \in Parts(path)
      ELSE \E i \in DOMAIN roots : IsPrefix(roots[i], Resolved(target))

Occurs(v, text) == \E i \in DOMAIN text : IsPrefix(v, SubSeq(text, i, Len(text)))

\* redact(): no value of the vault that is long enough is left, wherever
\* values overlap or contain each other; of a value that stands alone nothing
\* is left, not even what a shorter one inside it would leave; and a text
\* with none is unchanged.
Scrubs(vault, text, least) ==
  LET long == {vault[k] : k \in {l \in DOMAIN vault : Len(vault[l]) >= least}}
  IN  \A out \in Redacted(vault, text, least) :
        /\ \A v \in long : ~Occurs(v, out)
        /\ (\A v \in long : ~Occurs(v, text)) => out = text
        /\ text \in long => out = <<Mark>>
=============================================================================
