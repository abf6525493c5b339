--------------------------- MODULE ShellCommands ---------------------------
(***************************************************************************)
(* The programs of the shell that change a volume (client/lib/cp, mv, rm,  *)
(* rmdir, mkdir, write, to, append, unzip, allow, deny and mail/send.js):  *)
(* each is a few lookups and multiLinks, whose assertions say what is to   *)
(* be there, and what it does next depends on whether the answer is ok, a  *)
(* refused assertion or another error. They run in several pages, on the   *)
(* same volumes. The volumes are the entries of one tree, and what a file  *)
(* has in it is the set of the commands that contributed to it.            *)
(***************************************************************************)
EXTENDS Integers, NameTree

CONSTANTS
  Proc,          \* pages, each with one command to run
  Command,       \* records: cmd, opt, src, dest
  Volumes,       \* the volumes there may be at first
  MailName,      \* file names send may draw
  MaxAttempts    \* how often it draws: 20 in the code

VARIABLES
  volumes,
  run            \* each page's command: where it is, its attempt, what it looked up

shellVars == <<volumes, run>>

TextFile(text) == [p \in {<<>>} |-> text]
EmptyDir == [p \in {<<>>} |-> Dir]

Text(v) == IF IsFile(v) THEN v[<<>>] ELSE {}
Texts(t) == UNION {t[q] : q \in {p \in DOMAIN t : t[p] # Dir}}
-----------------------------------------------------------------------------
(* A multiLink on the server: every assertion on the tree as it is, then   *)
(* the links one after the other.                                          *)
Op(path, new, needs, saw) == [path |-> path, new |-> new, needs |-> needs, saw |-> saw]

Holds(op) ==
  LET node == At(volumes, op.path) IN
  CASE op.needs = "any" -> TRUE
    [] op.needs = "nothing" -> node = Missing
    [] op.needs = "blob" -> IsFile(node)
    [] op.needs = "tree" -> IsDir(node)
    [] op.needs = "same" -> node = op.saw

Linked(t, op) == IF InDirectory(t, op.path) THEN Put(t, op.path, op.new) ELSE Missing

(* There are one or two. *)
AllLinked(ops) ==
  LET first == Linked(volumes, ops[1])
  IN IF Len(ops) = 1 \/ first = Missing THEN first ELSE Linked(first, ops[2])

Served(ops) ==
  IF \E i \in DOMAIN ops : ~InDirectory(volumes, ops[i].path) THEN "error"
  ELSE IF \E i \in DOMAIN ops : ~Holds(ops[i]) THEN "refused"
  ELSE IF AllLinked(ops) = Missing THEN "error" ELSE "ok"
-----------------------------------------------------------------------------
(* cp and mv: into the directory dest under its own name, else as dest.    *)
Candidates(c) ==
  IF "ff" \in c.opt THEN <<c.dest>> ELSE <<Append(c.dest, Last(c.src)), c.dest>>
Crosses(c) == Head(c.src) # Head(c.dest)

(* mkdir {p:1} and unzip: the directories on the way, one by one.          *)
Parts(c) ==
  LET path == IF c.cmd = "unzip" THEN Front(c.dest) ELSE c.src
  IN [k \in 1..(Len(path) - 1) |-> SubSeq(path, 1, k + 1)]

Start(c) ==
  CASE c.cmd \in {"cp", "mv", "append", "allow", "deny", "unzip"} -> "lookup"
    [] c.cmd = "mkdir" /\ "p" \in c.opt -> IF Parts(c) = <<>> THEN "done" ELSE "make"
    [] OTHER -> "link"

Init ==
  /\ volumes \in Volumes
  /\ run \in [Proc -> {[c |-> c, pc |-> Start(c), i |-> 1, saw |-> Missing] : c \in Command}]

Over(r) == r.pc \in {"done", "failed"}
Goes(r, pc, i) == [c |-> r.c, pc |-> pc, i |-> i, saw |-> r.saw]
Saw(r, pc, node) == [c |-> r.c, pc |-> pc, i |-> 1, saw |-> node]
Fails(r) == Goes(r, "failed", r.i)
Ends(r) == Goes(r, "done", r.i)

FromPart(r, k) ==
  IF k <= Len(Parts(r.c)) THEN Goes(r, "make", k)
  ELSE IF r.c.cmd = "unzip" THEN Goes(r, "link", 1) ELSE Ends(r)
NextPart(r) == FromPart(r, r.i + 1)

AclDir(c) == Append(c.src, ".grits")
Acl(c) == AclDir(c) \o <<"access.json">>
LookedUp(r) ==
  CASE r.pc = "check" /\ r.c.cmd = "cp" -> Candidates(r.c)[r.i]
    [] r.pc = "check" /\ r.c.cmd # "cp" -> Parts(r.c)[r.i]
    [] r.pc = "acldir" -> AclDir(r.c)
    [] r.c.cmd \in {"allow", "deny"} -> Acl(r.c)
    [] OTHER -> r.c.src
-----------------------------------------------------------------------------
(* What a command asserts of the name it writes to.                        *)
Forced(c) ==
  IF c.cmd = "mv" THEN "i" \notin c.opt /\ c.opt \intersect {"f", "ff"} # {} ELSE "f" \in c.opt
Fresh(c) == IF Forced(c) THEN "any" ELSE "nothing"

(* What mv asserts of the source when it takes it away. *)
SourceAny(c) == "any"
Source(c) == "same"

SentAny(c) == "any"
Sent(c) == "nothing"

Mine(p, r) ==
  CASE r.c.cmd = "append" -> TextFile(Text(r.saw) \union {p})
    [] r.c.cmd = "allow" -> TextFile(Text(r.saw) \union {p})
    [] r.c.cmd = "deny" -> TextFile(Text(r.saw) \ {r.c.dest})
    [] OTHER -> TextFile({p})

(* The multiLinks a command may send where it is; send draws a name.       *)
Requests(p, r) ==
  LET c == r.c
      one(path, new, needs) == {<<Op(path, new, needs, Missing)>>}
  IN
  CASE r.pc = "make" -> one(Parts(c)[r.i], EmptyDir, "nothing")
    [] r.pc = "over" -> one(Parts(c)[r.i], EmptyDir, "blob")
    [] r.pc = "remove" -> one(c.src, Missing, "any")
    [] r.pc = "makeacl" -> one(AclDir(c), EmptyDir, "any")
    [] r.pc = "link" /\ c.cmd \in {"write", "append"} ->
         one(c.src, Mine(p, r), IF r.i = 1 THEN "blob" ELSE "nothing")
    [] r.pc = "link" /\ c.cmd = "rm" ->
         one(c.src, Missing,
             IF {"r", "f"} \subseteq c.opt THEN "any"
             ELSE IF "r" \in c.opt THEN (IF r.i = 1 THEN "tree" ELSE "blob")
             ELSE (IF r.i = 1 THEN "blob" ELSE "nothing"))
    [] r.pc = "link" /\ c.cmd = "rmdir" -> one(c.src, Missing, "tree")
    [] r.pc = "link" /\ c.cmd = "mkdir" -> one(c.src, EmptyDir, Fresh(c))
    [] r.pc = "link" /\ c.cmd = "unzip" -> one(c.dest, Mine(p, r), Fresh(c))
    [] r.pc = "link" /\ c.cmd = "cp" -> one(Candidates(c)[r.i], r.saw, "any")
    [] r.pc = "link" /\ c.cmd = "mv" /\ ~Crosses(c) ->
         {<<Op(Candidates(c)[r.i], r.saw, Fresh(c), Missing), Op(c.src, Missing, Source(c), r.saw)>>}
    [] r.pc = "link" /\ c.cmd = "mv" /\ Crosses(c) ->
         one(Candidates(c)[r.i], TextFile(Text(r.saw)), IF "i" \in c.opt THEN "nothing" ELSE "any")
    [] r.pc = "link" /\ c.cmd \in {"allow", "deny"} -> one(Acl(c), Mine(p, r), "any")
    [] r.pc = "link" /\ c.cmd = "send" ->
         UNION {one(Append(c.dest, name), Mine(p, r), Sent(c)) : name \in MailName}

(* What the command does when that is ok, refused, or an error.            *)
WhenOk(r) ==
  CASE r.pc \in {"make", "over"} -> NextPart(r)
    [] r.pc = "makeacl" -> Goes(r, "link", 1)
    [] r.pc = "link" /\ r.c.cmd = "mv" /\ Crosses(r.c) -> Goes(r, "remove", 1)
    [] r.pc = "link" /\ r.c.cmd = "rm" /\ r.c.opt = {} /\ r.i = 2 -> Fails(r)
    [] OTHER -> Ends(r)

WhenRefused(r) ==
  CASE r.pc = "make" -> Goes(r, IF "f" \in r.c.opt THEN "over" ELSE "check", r.i)
    [] r.pc = "over" -> Goes(r, "check", r.i)
    [] r.pc = "link" /\ r.i = 1 /\ (\/ r.c.cmd \in {"write", "append"}
                                    \/ r.c.cmd = "rm" /\ r.c.opt # {"r", "f"}) -> Goes(r, "link", 2)
    [] r.pc = "link" /\ r.c.cmd = "send" /\ r.i < MaxAttempts -> Goes(r, "link", r.i + 1)
    [] OTHER -> Fails(r)

WhenError(r) ==
  CASE r.pc = "link" /\ r.c.cmd = "write" /\ r.i = 1 -> Goes(r, "link", 2)
    [] r.pc = "link" /\ r.c.cmd \in {"cp", "mv"} /\ r.i < Len(Candidates(r.c)) ->
         Goes(r, IF "i" \in r.c.opt /\ r.c.cmd = "cp" THEN "check" ELSE "link", r.i + 1)
    [] OTHER -> Fails(r)
-----------------------------------------------------------------------------
(* A lookup, and what the command makes of it: of the file it found, of    *)
(* nothing there, or of a failure. A server's error may also be reported   *)
(* as "not found".                                                         *)
WhenFound(r, node) ==
  CASE r.pc = "check" /\ r.c.cmd = "cp" -> IF node = Missing THEN Goes(r, "link", r.i) ELSE Fails(r)
    [] r.pc = "check" /\ r.c.cmd # "cp" -> IF IsFile(node) THEN Fails(r) ELSE NextPart(r)
    [] r.pc = "acldir" -> Goes(r, IF node = Missing THEN "makeacl" ELSE "link", 1)
    [] r.pc = "lookup" /\ r.c.cmd = "append" ->
         IF IsDir(node) THEN Fails(r) ELSE Saw(r, "link", node)
    [] r.pc = "lookup" /\ r.c.cmd = "allow" -> Saw(r, "acldir", node)
    [] r.pc = "lookup" /\ r.c.cmd = "deny" ->
         IF r.c.dest \in Text(node) THEN Saw(r, "acldir", node) ELSE Fails(r)
    [] r.pc = "lookup" /\ r.c.cmd = "unzip" ->
         IF IsFile(node) THEN FromPart(r, 1) ELSE Fails(r)
    [] r.pc = "lookup" /\ r.c.cmd \in {"cp", "mv"} ->
         IF node = Missing THEN Fails(r)
         ELSE Saw(r, IF r.c.cmd = "cp" /\ "i" \in r.c.opt THEN "check" ELSE "link", node)

Looks(r) == r.pc \in {"lookup", "check", "acldir"}
Lookup(p) ==
  /\ Looks(run[p])
  /\ run' = [run EXCEPT ![p] = WhenFound(@, At(volumes, LookedUp(@)))]
  /\ UNCHANGED volumes

(* Only append, allow, deny and cp's source tell a failure from nothing.   *)
LookupFails(p) ==
  /\ Looks(run[p])
  /\ \/ run' = [run EXCEPT ![p] = WhenFound(@, Missing)]
     \/ run[p].pc = "lookup" /\ run' = [run EXCEPT ![p] = Fails(@)]
  /\ UNCHANGED volumes

(* A multiLink that is served and answered.                                *)
Link(p) ==
  /\ ~Looks(run[p]) /\ ~Over(run[p])
  /\ \E ops \in Requests(p, run[p]) :
       LET answer == Served(ops) IN
       /\ volumes' = IF answer = "ok" THEN AllLinked(ops) ELSE volumes
       /\ run' = [run EXCEPT ![p] = CASE answer = "ok" -> WhenOk(@)
                                      [] answer = "refused" -> WhenRefused(@)
                                      [] answer = "error" -> WhenError(@)]

(* One that is lost, or whose answer is.                                   *)
LinkLost(p) ==
  /\ ~Looks(run[p]) /\ ~Over(run[p])
  /\ \E ops \in Requests(p, run[p]) :
       volumes' \in {volumes, IF Served(ops) = "ok" THEN AllLinked(ops) ELSE volumes}
  /\ run' = [run EXCEPT ![p] = WhenError(@)]

Next == \E p \in Proc : Lookup(p) \/ LookupFails(p) \/ Link(p) \/ LinkLost(p)

Spec == Init /\ [][Next]_shellVars
-----------------------------------------------------------------------------
(* The commands that are to replace nothing: mkdir and unzip without       *)
(* force, send, and mv within a volume without force. mv of a directory    *)
(* into itself is left out: the second of its two links removes what the   *)
(* first one made.                                                         *)
Careful(c) ==
  \/ c.cmd \in {"mkdir", "unzip"} /\ ~Forced(c)
  \/ c.cmd = "send"
  \/ /\ c.cmd = "mv" /\ ~Crosses(c) /\ ~Forced(c)
     /\ ~IsPrefix(c.src, c.dest)

(* No step of a careful command makes anything vanish that anybody wrote,  *)
(* although others write, move and remove between its lookup and its link, *)
(* and although answers are lost.                                          *)
NothingVanishes ==
  [][\A p \in Proc : run'[p] # run[p] /\ Careful(run[p].c) => Texts(volumes) \subseteq Texts(volumes')]_shellVars

(* A message that is sent is in the inbox, whoever sends at the same time  *)
(* and draws the same name.                                                *)
MailKept ==
  \A p \in Proc :
    run[p].c.cmd = "send" /\ run[p].pc = "done" => p \in Texts(At(volumes, run[p].c.dest))
=============================================================================
