---------------------------- MODULE NativeTools ----------------------------
(***************************************************************************)
(* The native tools of igris-tools: FilesystemTool over a tree of files,   *)
(* and what TerminalTool and BrowserTool accept.  Pure: a tree is a        *)
(* function from the places under the root to Directory or a content, and  *)
(* a call of the tool a function of a tree.                                *)
(*                                                                         *)
(* A content is its text and a size: Short, Long (cut when it is shown) or *)
(* Huge (never read).  The operating system grants what it is asked.       *)
(* Paths and commands are as in Sandbox, whose workspace confines them in  *)
(* the same way.                                                           *)
(***************************************************************************)
EXTENDS Sandbox

Short == 1
Long == 2
Huge == 3
Directory == [text |-> "directory", size |-> 0]
OnlyRoot == [place \in {<<>>} |-> Directory]

\* FilesystemTool::validate
ValidCall(call) == call.op \in {"read", "list", "write"} /\ Confined(call.path)

Above(place) == {SubSeq(place, 1, k) : k \in 0..(Len(place) - 1)}
IsDirectory(tree, place) == place \in DOMAIN tree /\ tree[place] = Directory
IsFile(tree, place) == place \in DOMAIN tree /\ tree[place] # Directory

\* create_dir_all: all that is missing above a place is made; or none, if one
\* of those above is a file.
CanMake(tree, place) == \A p \in Above(place) : ~IsFile(tree, p)
Made(tree, place) ==
  [p \in DOMAIN tree \cup Above(place) |-> IF p \in DOMAIN tree THEN tree[p] ELSE Directory]

Entries(tree, place) ==
  {p[Len(p)] : p \in {q \in DOMAIN tree : Len(q) = Len(place) + 1 /\ IsPrefix(place, q)}}

Failure(tree) == [tree |-> tree, ok |-> FALSE, output |-> {}]
Success(tree, output) == [tree |-> tree, ok |-> TRUE, output |-> output]

\* ToolResult::ok cuts what it is given.
Shown(content) == [text |-> content.text, cut |-> content.size > Short]

Read(tree, place) ==
  IF IsFile(tree, place) /\ tree[place].size < Huge THEN Success(tree, Shown(tree[place]))
  ELSE Failure(tree)

List(tree, place) ==
  IF IsDirectory(tree, place) THEN Success(tree, Entries(tree, place)) ELSE Failure(tree)

\* The directories stay though the file cannot be written.
Write(tree, place, content) ==
  LET made == Made(tree, place)
  IN  IF ~CanMake(tree, place) THEN Failure(tree)
      ELSE IF IsDirectory(tree, place) THEN Failure(made)
      ELSE Success([p \in DOMAIN made \cup {place} |-> IF p = place THEN content ELSE made[p]],
                   "wrote")

\* FilesystemTool::run
Run(tree, call) ==
  CASE ~ValidCall(call) -> Failure(tree)
    [] ValidCall(call) /\ call.op = "read" -> Read(tree, call.path.parts)
    [] ValidCall(call) /\ call.op = "list" -> List(tree, call.path.parts)
    [] ValidCall(call) /\ call.op = "write" -> Write(tree, call.path.parts, call.content)

\* DENIED_PATTERNS, and TerminalTool::denied.
DeniedPatterns ==
  {"rm -rf /", "rm -rf ~", "mkfs", "dd if=", ":(){", "shutdown", "reboot", "halt", "poweroff",
   "format c:", "format d:", "del /f /s /q", "rd /s /q c:", "takeown", "> /dev/sda",
   "chmod -r 777 /", "curl|sh", "wget|sh"}
Denied(extra, command) == command \cap (DeniedPatterns \cup extra) # {}

\* TerminalTool::validate
ValidCommand(extra, command, blank) == ~blank /\ ~Denied(extra, command)

(***************************************************************************)
(* What these promise, for TLC to compare over short histories.            *)
(***************************************************************************)
After(calls) ==
  LET result[k \in 0..Len(calls)] ==
        IF k = 0 THEN Success(OnlyRoot, {}) ELSE Run(result[k - 1].tree, calls[k])
  IN  result

\* Whatever calls came before: what is read is what was last written there;
\* a directory lists what was written below it; a file is never replaced by a
\* directory nor a directory by a file, and a call that fails changes no file.
FaithfulFiles(calls) ==
  LET result == After(calls)
      n == Len(calls)
      place == calls[n].path.parts
      Wrote(k) == calls[k].op = "write" /\ result[k].ok
      Writes(p) == {k \in 1..(n - 1) : Wrote(k) /\ calls[k].path.parts = p}
      Latest(ks) == CHOOSE k \in ks : \A l \in ks : l <= k
      before == result[n - 1].tree
      after == result[n].tree
  IN  n > 0 =>
        /\ \A p \in DOMAIN after : \A q \in Above(p) : IsDirectory(after, q)
        /\ \A p \in DOMAIN before : (before[p] = Directory) <=> (after[p] = Directory)
        /\ ~result[n].ok => \A p \in DOMAIN after : IsFile(after, p) => after[p] = before[p]
        /\ calls[n].op = "read" /\ result[n].ok =>
             /\ Writes(place) # {}
             /\ result[n].output = Shown(calls[Latest(Writes(place))].content)
        /\ calls[n].op = "list" /\ result[n].ok =>
             \A k \in 1..(n - 1) :
               Wrote(k) /\ Len(calls[k].path.parts) > Len(place) /\ IsPrefix(place, calls[k].path.parts)
                 => calls[k].path.parts[Len(place) + 1] \in result[n].output

\* The denylists are two tables: a command that a workspace refuses the
\* terminal refuses too.
TerminalIsStricter(command) == ~CheckCommand(command) => Denied({}, command)
=============================================================================
