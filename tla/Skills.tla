------------------------------- MODULE Skills -------------------------------
(***************************************************************************)
(* igris-skills: the registry of runbooks.  Pure: a registry is a function *)
(* from names to records, and every method a function of a registry.  A    *)
(* manifest is its name, the fields of it that are blank, whether the name *)
(* is in kebab case, and its permissions, where Unknown stands for any     *)
(* that is not L0 to L4.  A call that is refused leaves the registry.      *)
(***************************************************************************)
EXTENDS Integers, Sequences, FiniteSets

Unknown == -1
KnownPermissions == 0..4
Required == {"name", "description", "version", "tools", "steps", "validation"}

\* SkillManifest::validate
Valid(m) ==
  /\ m.blank \cap Required = {}
  /\ m.kebab
  /\ m.permissions \subseteq KnownPermissions

MaxPermission(m) == CHOOSE p \in m.permissions \cup {0} : \A q \in m.permissions : q <= p

RequiresApproval(m) == MaxPermission(m) \in {3, 4}

Empty == [n \in {} |-> 0]
New(m) == [manifest |-> m, enabled |-> TRUE, uses |-> 0, successes |-> 0]

Register(registry, m) ==
  IF Valid(m) /\ m.name \notin DOMAIN registry
  THEN [n \in DOMAIN registry \cup {m.name} |-> IF n = m.name THEN New(m) ELSE registry[n]]
  ELSE registry

\* get_mut(name), and what is done with it.
Enable(registry, name) == [n \in DOMAIN registry |->
  IF n = name THEN [registry[n] EXCEPT !.enabled = TRUE] ELSE registry[n]]
Disable(registry, name) == [n \in DOMAIN registry |->
  IF n = name THEN [registry[n] EXCEPT !.enabled = FALSE] ELSE registry[n]]
RecordUse(registry, name) == [n \in DOMAIN registry |->
  IF n = name THEN [registry[n] EXCEPT !.uses = @ + 1] ELSE registry[n]]
RecordSuccess(registry, name) == [n \in DOMAIN registry |->
  IF n = name THEN [registry[n] EXCEPT !.uses = @ + 1, !.successes = @ + 1] ELSE registry[n]]

ListEnabled(registry) == {n \in DOMAIN registry : registry[n].enabled}
ApprovalGated(registry) == {n \in ListEnabled(registry) : RequiresApproval(registry[n].manifest)}

\* Disabled skills are not left out.
PromotionCandidates(registry, least) == {n \in DOMAIN registry : registry[n].successes >= least}

(***************************************************************************)
(* What the registry promises, for TLC to compare over short histories: a  *)
(* call is [op, name, manifest], and the manifest counts for "register".   *)
(***************************************************************************)
Apply(registry, call) ==
  CASE call.op = "register" -> Register(registry, call.manifest)
    [] call.op = "enable" -> Enable(registry, call.name)
    [] call.op = "disable" -> Disable(registry, call.name)
    [] call.op = "use" -> RecordUse(registry, call.name)
    [] call.op = "success" -> RecordSuccess(registry, call.name)

After(calls) ==
  LET registry[k \in 0..Len(calls)] ==
        IF k = 0 THEN Empty ELSE Apply(registry[k - 1], calls[k])
  IN  registry[Len(calls)]

\* "nothing self-installs": a skill is there because a valid manifest was
\* registered under its name, the first one for good: what was counted, and
\* what the user switched off, survives every later registration.
FaithfulRegistry(calls) ==
  LET registry == After(calls)
      Installs(i, n) == calls[i].op = "register" /\ calls[i].manifest.name = n /\ Valid(calls[i].manifest)
      First(n) == CHOOSE i \in DOMAIN calls : Installs(i, n) /\ \A j \in 1..(i - 1) : ~Installs(j, n)
      Later(n, ops) == {i \in DOMAIN calls : i > First(n) /\ calls[i].op \in ops /\ calls[i].name = n}
  IN  /\ DOMAIN registry = {n \in {calls[i].name : i \in DOMAIN calls} : \E i \in DOMAIN calls : Installs(i, n)}
      /\ \A n \in DOMAIN registry :
           /\ registry[n].manifest = calls[First(n)].manifest
           /\ registry[n].uses = Cardinality(Later(n, {"use", "success"}))
           /\ registry[n].successes = Cardinality(Later(n, {"success"}))
           /\ n \in ListEnabled(registry) <=>
                \A i \in Later(n, {"disable"}) : \E j \in Later(n, {"enable"}) : j > i
=============================================================================
