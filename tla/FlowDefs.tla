------------------------------- MODULE FlowDefs ------------------------------
(***************************************************************************)
(* Flows: what a flow file must be to be accepted (internal/engine/        *)
(* parser.go), how the references in a command are resolved                *)
(* (internal/engine/template.go) and where secrets come from               *)
(* (internal/engine/secret.go).                                            *)
(*                                                                         *)
(* A command, an output and a secret are sequences of tokens: pieces of    *)
(* text and references.  None stands for a field that is not given.        *)
(***************************************************************************)
EXTENDS Naturals, SequencesExt, TLC

CONSTANTS
  None,
  EnvValue,       \* environment variable -> its value, or None if not set
  FileValue,      \* file of a secret -> what it holds, or None if unreadable
  ArchiveURLs,    \* the URLs that end like an archive
  EscapingPaths   \* the paths that lead out of the state directory

Text(t) == <<"text", t>>
Output(step, name) == <<"output", step, name>>   \* ${{ steps.<s>.outputs.<o> }}
Secret(name) == <<"secret", name>>               \* ${{ secrets.<name> }}
Comment == Text("#")

NamesOf(s) == {s[i].name : i \in DOMAIN s}

\* Of several of one name the last one counts.
LastNamed(s, name) ==
  s[CHOOSE i \in DOMAIN s : s[i].name = name /\ \A j \in DOMAIN s : s[j].name = name => j <= i]

\* A function with some of its values replaced, or with new ones.
Updated(old, new) ==
  [x \in DOMAIN old \union DOMAIN new |-> IF x \in DOMAIN new THEN new[x] ELSE old[x]]

-----------------------------------------------------------------------------
(* Templates.                                                              *)

\* The references of one kind, in the order they are in.  (Here and below the set
\* binds the command, so that TLC evaluates it once in ENABLED too.)
References(cmd, kind) ==
  CHOOSE found \in
    {LET refs[i \in 0..Len(c)] ==
           IF i = 0 THEN <<>>
           ELSE IF c[i][1] = kind THEN Append(refs[i - 1], c[i]) ELSE refs[i - 1]
     IN  refs[Len(c)] : c \in {cmd}} : TRUE
ParseTemplates(cmd) == References(cmd, "output")
ParseSecretTemplates(cmd) == References(cmd, "secret")

ReplaceOnce(cmd, token, value) ==
  CHOOSE new \in
    {LET i == SelectInSeq(c, LAMBDA t : t = token)
     IN  IF i = 0 THEN c
         ELSE SubSeq(c, 1, i - 1) \o value \o SubSeq(c, i + 1, Len(c)) : c \in {cmd}} : TRUE

\* Each reference in turn replaces what then is its first occurrence.
Substitute(cmd, refs, values) ==
  FoldLeft(LAMBDA res, t : ReplaceOnce(res, t, values[Tail(t)]), cmd, refs)

Defined(refs, values) == \A i \in DOMAIN refs : Tail(refs[i]) \in DOMAIN values

\* Outputs first, then the secrets of the result.  outputs and secrets are
\* functions of <<step, output>> and <<secret>>.
ResolveTemplates(cmd, outputs, secrets) ==
  LET filled == Substitute(cmd, ParseTemplates(cmd), outputs)
      refs == ParseSecretTemplates(filled)
  IN  IF ~Defined(ParseTemplates(cmd), outputs)
      THEN [error |-> "output", cmd |-> <<>>]
      ELSE IF ~Defined(refs, secrets) THEN [error |-> "secret", cmd |-> <<>>]
      ELSE [error |-> None, cmd |-> Substitute(filled, refs, secrets)]

-----------------------------------------------------------------------------
(* Secrets.                                                                *)

\* The value of a secret, or None: it cannot be loaded.
ResolveSecret(decl) ==
  IF decl.env # None /\ EnvValue[decl.env] # None THEN EnvValue[decl.env]
  ELSE IF decl.file # None THEN FileValue[decl.file] ELSE None

Loads(decls) == \A i \in DOMAIN decls : ResolveSecret(decls[i]) # None

Declarations(decls) ==
  [x \in {<<n>> : n \in NamesOf(decls)} |-> ResolveSecret(LastNamed(decls, x[1]))]

\* Mutant: a declaration does not override what is known already.
LoadKeeping(known, decls) == Updated(Declarations(decls), known)
\* The declarations on top of what is known already.
Load(known, decls) == Updated(known, Declarations(decls))

-----------------------------------------------------------------------------
(* Validation.                                                             *)

ValidSecrets(decls) ==
  \A i \in DOMAIN decls :
    /\ decls[i].name # None
    /\ \A j \in DOMAIN decls : decls[j].name = decls[i].name => i = j
    /\ decls[i].env # None \/ decls[i].file # None

Retries(tool) == IF tool.retries = None THEN 1 ELSE tool.retries

ValidTools(tools) ==
  \A i \in DOMAIN tools :
    /\ tools[i].name # None
    /\ \A j \in DOMAIN tools : tools[j].name = tools[i].name => i = j
    /\ Retries(tools[i]) >= 1
    /\ tools[i].url # None => (tools[i].url \in ArchiveURLs <=> tools[i].path # None)

ValidOutputs(step) ==
  /\ step.outputs # <<>> => step.name # None
  /\ \A i \in DOMAIN step.outputs :
       LET o == step.outputs[i]
       IN  /\ o.name # None /\ o.type \in {"variable", "file"}
           /\ o.type = "file" => o.path # None

ValidStepNames(steps) ==
  \A i, j \in DOMAIN steps :
    steps[i].name = steps[j].name /\ steps[i].name # None => i = j

\* Mutant: a reference may name the step itself or one after it.
ReferencesAnywhere(steps) ==
  \A i \in DOMAIN steps :
    \A t \in ToSet(ParseTemplates(steps[i].cmd)) :
      \E j \in DOMAIN steps :
        steps[j].name = t[2] /\ t[3] \in NamesOf(steps[j].outputs)
ValidateTemplateReferences(steps) ==
  \A i \in DOMAIN steps :
    \A t \in ToSet(ParseTemplates(steps[i].cmd)) :
      \E j \in 1..(i - 1) :
        steps[j].name = t[2] /\ t[3] \in NamesOf(steps[j].outputs)

ValidateSecretReferences(flow) ==
  \A i \in DOMAIN flow.steps :
    \A t \in ToSet(ParseSecretTemplates(flow.steps[i].cmd)) :
      t[2] \in NamesOf(flow.secrets) \union NamesOf(flow.steps[i].secrets)

ValidateFlow(flow) ==
  /\ ValidTools(flow.tools) /\ ValidSecrets(flow.secrets)
  /\ ValidStepNames(flow.steps)
  /\ \A i \in DOMAIN flow.steps :
       ValidOutputs(flow.steps[i]) /\ ValidSecrets(flow.steps[i].secrets)
  /\ ValidateTemplateReferences(flow.steps)
  /\ ValidateSecretReferences(flow)

ParseFlow(flow) ==
  /\ flow.runsOn = "host" /\ flow.steps # <<>>
  /\ \A i \in DOMAIN flow.steps : flow.steps[i].kind = "shell"
  /\ ValidateFlow(flow)
=============================================================================
