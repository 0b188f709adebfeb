-------------------------------- MODULE Ast --------------------------------
(***************************************************************************)
(* The syntax tree (vm/ast.hpp): one operator per node class, whose        *)
(* parameters are those of the class's constructor.  Every node is the     *)
(* same record; kids holds the node's children, Null for a null pointer,   *)
(* and a node is identified by its path, the indices that lead to it.      *)
(***************************************************************************)
EXTENDS Integers, Sequences, SequencesExt

Blank == [type |-> "", name |-> "", str |-> "", val |-> 0, line |-> 0,
          spec |-> "eNone", keywords |-> <<>>, kids |-> <<>>]
Null == [Blank EXCEPT !.type = "Null"]

NodeOf(type, kids) == [Blank EXCEPT !.type = type, !.kids = kids]
NamedNode(type, name, kids) == [NodeOf(type, kids) EXCEPT !.name = name]

\* Node::line(l)
AtLine(n, l) == [n EXCEPT !.line = l]

\* Arguments: the positional nodes and, per keyword, the index of its node.
Arguments(positional, keywords) == [positional |-> positional, keywords |-> keywords]
NoArguments == Arguments(<<>>, <<>>)
WithArgs(n, args) ==
  [n EXCEPT !.kids = @ \o args.positional, !.keywords = args.keywords]

Seq_(parent, child) == NodeOf("Seq", <<parent, child>>)
Argument(name, cast, position, opt_value) ==
  [NamedNode("Argument", name, <<cast, opt_value>>) EXCEPT !.val = position]
\* kids: the body, the self argument and the other arguments.
Scope(body, arg_objs, self) == NodeOf("Scope", <<body, self>> \o arg_objs)
Number(val) == [NodeOf("Number", <<>>) EXCEPT !.val = val]
Named(name) == NamedNode("Named", name, <<>>)
LiteralString(str) == [NodeOf("LiteralString", <<>>) EXCEPT !.str = str]
Nil == NodeOf("Nil", <<>>)
True_ == NodeOf("True", <<>>)
False_ == NodeOf("False", <<>>)
Self == NodeOf("Self", <<>>)

Send(name, recv, args, spec) ==
  [WithArgs(NamedNode("Send", name, <<recv>>), args) EXCEPT !.spec = spec]
SendIndirect(name, recv, args) == WithArgs(NodeOf("SendIndirect", <<name, recv>>), args)
Tuple(args) == WithArgs(NodeOf("Tuple", <<>>), args)
List(args) == WithArgs(NodeOf("List", <<>>), args)
Dictionary(args) == WithArgs(NodeOf("Dictionary", <<>>), args)
Cast(value, type) == NodeOf("Cast", <<value, type>>)

IfCond(recv, body, ebody) == NodeOf("IfCond", <<recv, body, ebody>>)
Unless(recv, body) == NodeOf("Unless", <<recv, body>>)
While(cond, body) == NodeOf("While", <<cond, body>>)
Try(body, handler, id, type) == NamedNode("Try", id, <<body, handler, type>>)
Return(val) == NodeOf("Return", <<val>>)
Raise(value) == NodeOf("Raise", <<value>>)
Not(value) == NodeOf("Not", <<value>>)
And(left, right) == NodeOf("And", <<left, right>>)

Assign(name, value) == NamedNode("Assign", name, <<value>>)
AssignOp(name, op, value) == [NamedNode("AssignOp", name, <<value>>) EXCEPT !.str = op]
IvarAssign(name, value) == NamedNode("IvarAssign", name, <<value>>)
IvarAssignOp(name, op, value) ==
  [NamedNode("IvarAssignOp", name, <<value>>) EXCEPT !.str = op]
IvarRead(name) == NamedNode("IvarRead", name, <<>>)

Import(path, name) == [NamedNode("Import", name, <<>>) EXCEPT !.str = path]
\* str: the path; spec: the element.
ImportOne(path, elem, name) ==
  [NamedNode("ImportOne", name, <<>>) EXCEPT !.str = path, !.spec = elem]
Class(name, super, body) == NamedNode("Class", name, <<super, body>>)
Trait(name, body) == NamedNode("Trait", name, <<body>>)
\* str: the scope of `def scope.name`, "" when there is none; val: args.size().
Def(scope, name, body, args) ==
  [NamedNode("Def", name, <<body>>) EXCEPT !.str = scope, !.val = args]
Lambda(body) == NodeOf("Lambda", <<body>>)

\* Send::self_less_p, Node::self_p
SelfLess(n) == n.spec = "eSelfLess"
IsSelf(n) == n.type = "Self"

\* The arguments of a node whose first `skip` children are not arguments.
ArgIndices(n, skip) == [i \in 1 .. Len(n.kids) - skip |-> i + skip]
ArgObjs(scope) == SubSeq(scope.kids, 3, Len(scope.kids))
=============================================================================
