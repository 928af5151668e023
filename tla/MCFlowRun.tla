------------------------------ MODULE MCFlowRun -----------------------------
(* Instances of FlowRun for TLC.                                           *)
EXTENDS FlowRunInv

CONSTANTS r1, r2, d1, u1, u2, z1, p1, p2, cc, jq, build, use, v, g, k, e1, e2, f1

OneRun == {r1}
TwoRuns == {r1, r2}
OneDir == {d1}
TwoTools == {cc, jq}
JustJq == {jq}
JustZ1 == {z1}
JustP2 == {p2}

\* e1 is set and e2 is not; f1 can be read.
SomeEnv == e1 :> <<Text("env")>> @@ e2 :> None
SomeFiles == f1 :> <<Text("file")>>

SomeValues == {<<Text("1")>>, <<Secret(k)>>, <<Output(build, g)>>}

S(name, cmd_, outs_, secs) ==
  [kind |-> "shell", name |-> name, cmd |-> cmd_, outputs |-> outs_, secrets |-> secs]
F(dir, tools, secs, steps) ==
  [runsOn |-> "host", stateDir |-> dir, tools |-> tools, secrets |-> secs, steps |-> steps]
Var(n) == [name |-> n, type |-> "variable", path |-> None]
File(n, p) == [name |-> n, type |-> "file", path |-> p]
Sec(env, file) == <<[name |-> k, env |-> env, file |-> file]>>
Tool(n, url, path, sha, retries) ==
  [name |-> n, url |-> url, path |-> path, sha |-> sha, retries |-> retries]

Cmd == Text("run")

\* Two steps, the second of which uses what there is, or is not.
FirstSteps ==
  <<S(build, <<Cmd>>, <<Var(v)>>, <<>>), S(build, <<Cmd>>, <<File(v, p1), Var(v), File(g, p1)>>, <<>>),
    S(build, <<Cmd>>, <<File(g, p2)>>, <<>>), S(build, <<Comment, Cmd>>, <<>>, <<>>),
    S(None, <<Cmd, Secret(k)>>, <<>>, <<>>), S(None, <<Cmd>>, <<Var(v)>>, <<>>)>>
SecondCmds ==
  <<<<Output(build, v), Cmd, Output(build, g), Output(build, v)>>, <<Cmd, Output(build, v), Secret(k)>>,
    <<Cmd, Output(use, v)>>, <<Cmd>>>>
SomeOutputs == <<<<>>, <<Var(v)>>>>
SomeSecrets == <<<<>>, Sec(e2, f1), Sec(e2, None), Sec(e1, None)>>
TemplateFlow(i, j, l, m, n) ==
  F(None, <<>>, SomeSecrets[i],
    <<FirstSteps[j], S(use, SecondCmds[l], SomeOutputs[m], SomeSecrets[n])>>)
AllOf(Op(_), n) == SubSeq([i \in 1..n |-> Op(i - 1)], 1, n)
TemplateFlows ==
  AllOf(LAMBDA x : TemplateFlow(1 + (x % 3), 1 + ((x \div 3) % 6), 1 + ((x \div 18) % 4),
                                1 + ((x \div 72) % 2), IF x < 144 THEN 1 ELSE 4), 288)

\* Flows with tools.
JustRun == <<S(None, <<Cmd>>, <<>>, <<>>)>>
SomeTools ==
  <<<<Tool(jq, None, None, None, None), Tool(cc, u1, None, u1, 2)>>,
    <<Tool(cc, None, None, None, 1)>>, <<Tool(cc, u1, None, None, 0)>>,
    <<Tool(cc, z1, p1, z1, 1)>>, <<Tool(cc, u2, None, None, 1)>>,
    <<Tool(jq, z1, p1, None, 2)>>>>
ToolFlows == AllOf(LAMBDA i : F(None, SomeTools[i + 1], <<>>, JustRun), 6)

SomeDeclared ==
  UNION {ToSet(SomeTools[i]) : i \in DOMAIN SomeTools}
    \union {Tool(cc, u1, None, u1, 1), Tool(cc, u2, None, None, 1), Tool(cc, u1, None, None, 1)}

\* Two versions of a flow with a state directory.
Version1 ==
  F(d1, <<Tool(cc, u1, None, u1, 1)>>, <<>>,
    <<S(build, <<Cmd>>, <<Var(v)>>, <<>>), S(None, <<Cmd, Output(build, v)>>, <<>>, <<>>)>>)
Version2 ==
  F(d1, <<Tool(cc, u2, None, None, 1)>>, <<>>,
    <<S(build, <<Cmd>>, <<File(v, p1)>>, <<>>), S(None, <<Cmd, Output(build, v)>>, <<>>, <<>>)>>)

\* Another one, with the tool of the first but not its checksum, which is run
\* twice at one time.
Version3 == F(d1, <<Tool(cc, u1, None, None, 1)>>, <<>>, <<S(build, <<Cmd>>, <<File(v, p1)>>, <<>>)>>)

\* Flows the parser refuses, each for one thing that is wrong with it.
NamedTwice == <<S(build, <<Cmd>>, <<>>, <<>>), S(build, <<Cmd>>, <<>>, <<>>)>>
WrongFlows ==
  <<[Version3 EXCEPT !.runsOn = None], [Version3 EXCEPT !.steps = <<>>],
    [Version3 EXCEPT !.steps[1].kind = None], [Version3 EXCEPT !.tools = @ \o @],
    F(None, <<>>, <<>>, NamedTwice), F(None, <<>>, Sec(e1, None) \o Sec(None, f1), JustRun),
    F(None, <<>>, Sec(None, None), JustRun), F(None, <<>>, <<>>, <<S(None, <<Cmd>>, <<>>, Sec(None, None))>>),
    F(None, <<>>, <<>>, <<S(build, <<Cmd>>, <<File(g, None)>>, <<>>)>>)>>

SomeFlows == <<Version1, Version2, Version3>> \o ToolFlows \o TemplateFlows \o WrongFlows
ASSUME RefusesWrongFlows == \A i \in DOMAIN WrongFlows : ~ParseFlow(WrongFlows[i])
SomeTogether == {{3}}
=============================================================================
