------------------------------- MODULE Shell --------------------------------
(***************************************************************************)
(* The shell: shell/shell.c, and the paths of shell/buildin_cmd.c.  A      *)
(* string is the sequence of its characters, without the final 0.          *)
(***************************************************************************)
EXTENDS Integers, Sequences, SequencesExt, FiniteSetsExt

CONSTANTS
  Chars,          \* the characters that are typed at the prompt
  MAX_PATH_LEN,   \* the size of cmd_line (512)
  MAX_ARG_NR,     \* the size of argv (16)
  PathArgs,       \* the arguments that cd is given
  Dirs            \* the directories that exist, as sequences of names

BS == "backspace"
CTRL_U == "ctrl+u"
ENTER == "enter"
NUL == "0"

ASSUME ShellAssumption ==
  /\ Chars \cap {BS, CTRL_U, ENTER, NUL} = {}
  /\ {MAX_PATH_LEN, MAX_ARG_NR} \subseteq Nat \ {0}
  /\ <<>> \notin PathArgs
  /\ <<>> \in Dirs

VARIABLES
  reading,     \* readline waits for a key; otherwise a command has been run
  cmd_line,    \* the buffer, and the byte after it
  pos,         \* where readline puts the next character
  typed,       \* history: the characters typed and not taken back
  given,       \* history: the line that was run, as it was typed
  ran,         \* the commands that were run for it, each with its words
  hung,        \* an assertion has failed: the shell spins
  cwd,         \* the working directory, as the kernel has it
  cwd_cache,   \* the working directory, as the prompt shows it
  asked,       \* history: what cd was given, and from where
  final_path

vars == <<reading, cmd_line, pos, typed, given, ran, hung, cwd, cwd_cache, asked,
          final_path>>

-----------------------------------------------------------------------------
\* path_parse: the first name of a path, and what follows it.
path_parse(path) ==
  LET from == IF path # <<>> /\ path[1] = "/"
              THEN Min({i \in 1 .. Len(path) : path[i] # "/"} \cup {Len(path) + 1})
              ELSE 1
      to   == Min({i \in from .. Len(path) : path[i] = "/"} \cup {Len(path) + 1})
  IN  [name |-> SubSeq(path, from, to - 1), rest |-> SubSeq(path, to, Len(path))]

last_slash(path) == Max({i \in 1 .. Len(path) : path[i] = "/"})

\* Mutated: the root's slash is doubled.
wash_name_doubles(new, name) ==
  IF name = <<".", ".">>
  THEN IF last_slash(new) # 1 THEN SubSeq(new, 1, last_slash(new) - 1) ELSE <<"/">>
  ELSE IF name = <<".">> THEN new
  ELSE Append(new, "/") \o name

\* One turn of the loop of wash_path: new is the path that is built.
wash_name(new, name) ==
  IF name = <<".", ".">>
  THEN IF last_slash(new) # 1 THEN SubSeq(new, 1, last_slash(new) - 1) ELSE <<"/">>
  ELSE IF name = <<".">> THEN new
  ELSE (IF new = <<"/">> THEN new ELSE Append(new, "/")) \o name

wash_path(old) ==
  LET wash[path \in Seq(STRING), new \in Seq(STRING)] ==
        LET p == path_parse(path)
        IN  IF p.name = <<>> THEN new ELSE wash[p.rest, wash_name(new, p.name)]
  IN  wash[old, <<"/">>]

\* The names of a path, each after a slash: what sys_getcwd returns.
Render(names) ==
  IF names = <<>> THEN <<"/">>
  ELSE FoldLeft(LAMBDA path, name : path \o <<"/">> \o name, <<>>, names)

make_clear_abs_path(path, dir) ==
  wash_path(IF path[1] = "/" THEN path
            ELSE Render(dir) \o (IF dir = <<>> THEN <<>> ELSE <<"/">>) \o path)

-----------------------------------------------------------------------------
\* Mutated: the test refuses the last word that fits.
cmd_parse_early(str) ==
  LET parse[i \in 1 .. (Len(str) + 1), argv \in Seq(Seq(STRING))] ==
        LET from == Min({j \in i .. Len(str) : str[j] # " "} \cup {Len(str) + 1})
            to   == Min({j \in from .. Len(str) : str[j] = " "} \cup {Len(str) + 1})
            next == Append(argv, SubSeq(str, from, to - 1))
        IN  IF from > Len(str) THEN [argc |-> Len(argv), argv |-> argv]
            ELSE IF Len(next) >= MAX_ARG_NR THEN [argc |-> -1, argv |-> next]
            ELSE parse[Min({to + 1, Len(str) + 1}), next]
  IN  parse[1, <<>>]

(***************************************************************************)
(* cmd_parse takes the words off the string one by one.  The test for too  *)
(* many comes after the word is stored, and lets one more by.              *)
(***************************************************************************)
cmd_parse(str) ==
  LET parse[i \in 1 .. (Len(str) + 1), argv \in Seq(Seq(STRING))] ==
        LET from == Min({j \in i .. Len(str) : str[j] # " "} \cup {Len(str) + 1})
            to   == Min({j \in from .. Len(str) : str[j] = " "} \cup {Len(str) + 1})
            next == Append(argv, SubSeq(str, from, to - 1))
        IN  IF from > Len(str) THEN [argc |-> Len(argv), argv |-> argv]
            ELSE IF Len(argv) > MAX_ARG_NR THEN [argc |-> -1, argv |-> next]
            ELSE parse[Min({to + 1, Len(str) + 1}), next]
  IN  parse[1, <<>>]

\* The numbers from a to b that pass a test, in order.
Select(a, b, Test(_)) == SelectSeq([i \in 1 .. (b - a + 1) |-> a + i - 1], Test)

\* The parts of a line between the signs "|".
parts(line) ==
  LET bars == Select(1, Len(line), LAMBDA i : line[i] = "|")
      ends == <<0>> \o bars \o <<Len(line) + 1>>
  IN  [k \in 1 .. (Len(ends) - 1) |-> SubSeq(line, ends[k] + 1, ends[k + 1] - 1)]

\* cmd_execute compares argv[0]: strcmp asserts that there is one.
cmd_execute(r, cmd) ==
  IF r.hung THEN r
  ELSE IF cmd.argv = <<>> THEN [r EXCEPT !.hung = TRUE]
  ELSE [r EXCEPT !.ran = Append(@, cmd.argv)]

\* my_shell: with "|" the result of cmd_parse is not looked at.
run_line(line) ==
  LET cmds == [k \in 1 .. Len(parts(line)) |-> cmd_parse(parts(line)[k])]
  IN  IF line = <<>> \/ (Len(cmds) = 1 /\ cmds[1].argc = -1)
      THEN [ran |-> <<>>, hung |-> FALSE]
      ELSE FoldLeft(cmd_execute, [ran |-> <<>>, hung |-> FALSE], cmds)

-----------------------------------------------------------------------------
empty_line == [i \in 0 .. MAX_PATH_LEN |-> NUL]

NoCd == [path |-> <<>>, from |-> <<>>]

Init ==
  /\ reading = TRUE
  /\ cmd_line = empty_line /\ pos = 0 /\ typed = <<>>
  /\ given = <<>> /\ ran = <<>> /\ hung = FALSE
  /\ cwd = <<>> /\ cwd_cache = <<"/">>
  /\ asked = NoCd /\ final_path = <<>>

\* The top of the loop of my_shell: the buffers are cleared.
print_prompt ==
  /\ ~reading /\ ~hung
  /\ reading' = TRUE
  /\ cmd_line' = empty_line /\ final_path' = <<>>
  /\ pos' = 0 /\ typed' = <<>> /\ given' = <<>> /\ ran' = <<>> /\ asked' = NoCd
  /\ UNCHANGED <<hung, cwd, cwd_cache>>

\* The string in the buffer: up to the first 0; one follows the byte after it.
StringIn(buf) ==
  LET end == Min({i \in DOMAIN buf : buf[i] = NUL} \cup {MAX_PATH_LEN + 1})
  IN  [i \in 1 .. end |-> buf[i - 1]]

\* readline has returned, and my_shell runs the line.
Return(buf, line) ==
  /\ LET r == run_line(StringIn(buf)) IN ran' = r.ran /\ hung' = r.hung
  /\ given' = line
  /\ reading' = FALSE /\ cmd_line' = empty_line /\ pos' = 0 /\ typed' = <<>>
  /\ UNCHANGED <<cwd, cwd_cache, asked, final_path>>

\* read puts every key into the buffer before readline looks at it.
Stored(key) == [cmd_line EXCEPT ![pos] = key]

Edit(buf, at, line) ==
  /\ cmd_line' = buf /\ pos' = at /\ typed' = line
  /\ UNCHANGED <<reading, given, ran, hung, cwd, cwd_cache, asked, final_path>>

Reading == reading /\ pos < MAX_PATH_LEN

enter == Reading /\ Return([cmd_line EXCEPT ![pos] = NUL], typed)

character(c) == Reading /\ Edit(Stored(c), pos + 1, Append(typed, c))

\* Mutated: a backspace at the start of the line goes back too.
backspace_always ==
  Reading /\ Edit(Stored(BS), pos - 1, IF typed = <<>> THEN typed ELSE Front(typed))

\* The first byte tells whether the backspace is the first key of the line.
backspace ==
  /\ Reading
  /\ Edit(Stored(BS), IF Stored(BS)[0] # BS THEN pos - 1 ELSE pos,
          IF typed = <<>> THEN typed ELSE Front(typed))

ctrl_l == Reading /\ Edit([cmd_line EXCEPT ![pos] = NUL], pos, typed)

ctrl_u ==
  /\ Reading
  /\ Edit([i \in DOMAIN cmd_line |-> IF i \in 1 .. pos THEN NUL ELSE Stored(CTRL_U)[i]], 0, <<>>)

\* The buffer is full: the next key goes into the byte after it.
line_full(key) ==
  /\ reading /\ pos = MAX_PATH_LEN
  /\ Return(Stored(key), Append(typed, key))

\* The names of a path, as chdir finds them one after the other.
Names(path) ==
  LET bounds == {0, Len(path) + 1} \cup {i \in 1 .. Len(path) : path[i] = "/"}
      starts == Select(0, Len(path), LAMBDA i : i \in bounds /\ i + 1 \notin bounds)
  IN  [k \in DOMAIN starts |->
         SubSeq(path, starts[k] + 1, Min({j \in bounds : j > starts[k]}) - 1)]

\* "cd path" at an empty prompt: buildin_cd, and what cmd_execute does after.
buildin_cd(path) ==
  /\ reading /\ cmd_line = empty_line
  /\ reading' = FALSE
  /\ asked' = [path |-> path, from |-> cwd]
  /\ final_path' = make_clear_abs_path(path, cwd)
  /\ IF Names(final_path') \in Dirs
     THEN cwd' = Names(final_path') /\ cwd_cache' = final_path'
     ELSE UNCHANGED <<cwd, cwd_cache>>
  /\ UNCHANGED <<cmd_line, pos, typed, given, ran, hung>>

Next ==
  \/ print_prompt
  \/ enter \/ backspace \/ ctrl_l \/ ctrl_u
  \/ \E c \in Chars : character(c)
  \/ \E key \in Chars \cup {BS, ENTER} : line_full(key)
  \/ \E path \in PathArgs : buildin_cd(path)

Spec == Init /\ [][Next]_vars

-----------------------------------------------------------------------------
(***************************************************************************)
(* Whatever is typed, taken back with backspace or wiped with ctrl+u, the  *)
(* characters before pos are those that the user has not taken back, and   *)
(* pos is never before the buffer or past the byte after it, though        *)
(* backspace only looks at cmd_line[0] and old characters stay in the      *)
(* buffer.                                                                 *)
(***************************************************************************)
LineEdited ==
  /\ pos = Len(typed) /\ pos <= MAX_PATH_LEN
  /\ \A i \in 1 .. Len(typed) : cmd_line[i - 1] = typed[i]

\* The words of a string: the longest runs of characters other than a space.
Words(str) ==
  LET first(i) == str[i] # " " /\ (i = 1 \/ str[i - 1] = " ")
      last(i)  == Max({j \in i .. Len(str) : \A k \in i .. j : str[k] # " "})
      starts   == Select(1, Len(str), first)
  IN  [k \in DOMAIN starts |-> SubSeq(str, starts[k], last(starts[k]))]

Commands(line) == [k \in 1 .. Len(parts(line)) |-> Words(parts(line)[k])]

(***************************************************************************)
(* A line whose commands have at least one word and no more than fit into  *)
(* argv runs exactly its commands, in order, each with its words.  The     *)
(* shell hangs only on a command without a word (strcmp is given NULL),    *)
(* and then it has run the commands before it.                             *)
(***************************************************************************)
CommandsRun ==
  LET cmds == Commands(given)
  IN  /\ (given # <<>> /\ \A k \in DOMAIN cmds : Len(cmds[k]) \in 1 .. MAX_ARG_NR)
           => ran = cmds /\ ~hung
      /\ hung => given # <<>> /\ \E k \in DOMAIN cmds : cmds[k] = <<>> /\ Len(ran) = k - 1

\* The directory that a path leads to, name by name.
Resolve(dir, path) ==
  FoldLeft(LAMBDA at, name : IF name = <<".">> THEN at
                             ELSE IF name # <<".", ".">> THEN Append(at, name)
                             ELSE IF at = <<>> THEN at ELSE Front(at),
           IF path[1] = "/" THEN <<>> ELSE dir, Names(path))

(***************************************************************************)
(* cd leads where its path says, seen from the working directory: however  *)
(* many slashes, "." and ".." it has, wash_path makes of it the one clean  *)
(* path; and the prompt shows the directory that the kernel has.           *)
(***************************************************************************)
CdResolves ==
  /\ cwd_cache = Render(cwd)
  /\ asked # NoCd =>
       LET there == Resolve(asked.from, asked.path)
       IN  /\ final_path = Render(there)
           /\ cwd = IF there \in Dirs THEN there ELSE asked.from
=============================================================================
