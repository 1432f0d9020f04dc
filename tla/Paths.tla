------------------------------- MODULE Paths -------------------------------
(***************************************************************************)
(* Paths as texts: cleaning (clean_path), their last and first parts, the  *)
(* patterns of fileset (glob_match) and the walk it makes.                 *)
(***************************************************************************)
EXTENDS Bytes
LOCAL INSTANCE SequencesExt
LOCAL INSTANCE FiniteSetsExt

CONSTANTS
    Home,       \* the user's home directory, "" for none
    WorkDir     \* the working directory

\* Mutant: ".." takes a ".." that could not be taken back for a name.
UpOverUps(out, dotdot, rooted) ==
    LET cuts == {q \in 2 .. Len(out) : SubSeq(out, q, q) = "/"}
    IN  IF Len(out) > (IF rooted THEN 1 ELSE 0)
        THEN [out |-> SubSeq(out, 1, Max(cuts \cup {IF rooted THEN 2 ELSE 1}) - 1), dotdot |-> dotdot]
        ELSE IF rooted THEN [out |-> out, dotdot |-> dotdot]
        ELSE [out |-> "..", dotdot |-> 2]

\* A ".." drops the last element there is, back to the length dotdot: the root, or
\* a ".." that stays.
Up(out, dotdot, rooted) ==
    LET cuts == {q \in dotdot + 2 .. Len(out) : SubSeq(out, q, q) = "/"}
        kept == out \o (IF out = "" THEN ".." ELSE "/..")
    IN  CASE Len(out) > dotdot ->
                 [out |-> SubSeq(out, 1, Max(cuts \cup {dotdot + 1}) - 1), dotdot |-> dotdot]
          [] rooted -> [out |-> out, dotdot |-> dotdot]
          [] OTHER -> [out |-> kept, dotdot |-> Len(kept)]

\* clean_path from r on; out is the path so far.
RECURSIVE CleanFrom(_, _, _, _, _)
CleanFrom(path, r, out, dotdot, rooted) ==
    LET stop == Find(path, r, {"/"})
        element == SubSeq(path, r, stop - 1)
        up == Up(out, dotdot, rooted)
        sep == IF Len(out) # (IF rooted THEN 1 ELSE 0) THEN "/" ELSE ""
    IN  CASE r > Len(path) -> IF out = "" THEN "." ELSE out
          [] element \in {"", "."} -> CleanFrom(path, stop + 1, out, dotdot, rooted)
          [] element = ".." -> CleanFrom(path, stop + 1, up.out, up.dotdot, rooted)
          [] OTHER -> CleanFrom(path, stop + 1, out \o sep \o element, dotdot, rooted)

Clean(path) ==
    IF Char(path, 1) = "/" THEN CleanFrom(path, 2, "/", 1, TRUE)
    ELSE CleanFrom(path, 1, "", 0, FALSE)

LastSlash(path) == Max({0} \cup {i \in 1 .. Len(path) : SubSeq(path, i, i) = "/"})

Basename(path) ==
    LET shorter == TrimRight(path, {"/"})
    IN  CASE path = "" -> "."
          [] shorter = "" -> "/"
          [] OTHER -> From(shorter, LastSlash(shorter) + 1)

\* bi_dirname: what is before the last slash is cleaned, the slash itself too.
Dirname(path) == Clean(SubSeq(path, 1, LastSlash(path)))

\* A home of another user is not looked up.
HomePath(path) ==
    CASE Char(path, 1) # "~" -> Str(path)
      [] Char(path, 2) \notin {"", "/"} \/ Home = "" -> Error
      [] OTHER -> Str(Home \o From(path, 2))

Absolute(path) == Clean(IF Char(path, 1) = "/" THEN path ELSE WorkDir \o "/" \o path)

------------------------------------------------------------------------------
\* The members of a class from q on: does one of them match c, and where is the
\* bracket that closes it, 0 for none?
RECURSIVE ClassFrom(_, _, _, _, _)
ClassFrom(p, q, c, first, matched) ==
    LET x == Char(p, q)
        z == Char(p, q + 2)
        range == Char(p, q + 1) = "-" /\ z \notin {"", "]"}
    IN  CASE x = "" -> [close |-> 0, matched |-> FALSE]
          [] x = "]" /\ ~first -> [close |-> q, matched |-> matched]
          [] range -> ClassFrom(p, q + 3, c, FALSE,
                                matched \/ (~Before(c, x) /\ ~Before(z, c)))
          [] OTHER -> ClassFrom(p, q + 1, c, FALSE, matched \/ c = x)

\* class_match on the class that p begins with.
Class(p, c) ==
    LET neg == Char(p, 2) \in {"^", "!"}
        found == ClassFrom(p, IF neg THEN 3 ELSE 2, c, TRUE, FALSE)
    IN  [close |-> found.close, ok |-> found.close # 0 /\ found.matched # neg]

\* The brace p begins with: where it closes, 0 for nowhere, and the commas between
\* its alternatives.  Braces nest, and mean nothing in a class.
Braces(p) ==
    FoldLeft(LAMBDA z, i :
               LET c == Char(p, i) IN
               CASE z.close # 0 \/ i = 1 -> z
                 [] z.inClass -> [z EXCEPT !.inClass = c # "]"]
                 [] c = "[" -> [z EXCEPT !.inClass = TRUE]
                 [] c = "{" -> [z EXCEPT !.depth = @ + 1]
                 [] c = "}" /\ z.depth = 0 -> [z EXCEPT !.close = i]
                 [] c = "}" -> [z EXCEPT !.depth = @ - 1]
                 [] c = "," /\ z.depth = 0 -> [z EXCEPT !.cuts = Append(@, i)]
                 [] OTHER -> z,
             [depth |-> 0, inClass |-> FALSE, cuts |-> <<>>, close |-> 0],
             [i \in 1 .. Len(p) |-> i])

\* The patterns p stands for: each alternative of its first brace, with the rest.
Alternatives(p, b) ==
    LET edges == <<1>> \o b.cuts \o <<b.close>>
    IN  {SubSeq(p, edges[i] + 1, edges[i + 1] - 1) \o From(p, b.close + 1) :
           i \in 1 .. Len(edges) - 1}

\* glob_match
RECURSIVE Glob(_, _)
Glob(p, s) ==
    LET c == Char(p, 1)
        same == s # "" /\ Char(s, 1) = c /\ Glob(From(p, 2), From(s, 2))
        deep == From(p, IF Char(p, 3) = "/" THEN 4 ELSE 3)
        class == Class(p, Char(s, 1))
    IN  CASE c = "" -> s = ""
          [] c = "{" -> LET b == Braces(p) IN
                        IF b.close = 0 THEN same
                        ELSE \E q \in Alternatives(p, b) : Glob(q, s)
          [] c = "*" /\ Char(p, 2) = "*" ->
                 deep = "" \/ \E t \in 1 .. Len(s) + 1 : Glob(deep, From(s, t))
          [] c = "*" -> \E t \in 1 .. Find(s, 1, {"/"}) : Glob(From(p, 2), From(s, t))
          [] c = "?" -> Char(s, 1) \notin {"", "/"} /\ Glob(From(p, 2), From(s, 2))
          [] c = "[" -> /\ Char(s, 1) \notin {"", "/"} /\ class.ok
                        /\ Glob(From(p, class.close + 1), From(s, 2))
          [] OTHER -> same

\* What a directory holds, by the paths below it.
Below(base) ==
    LET within == SelectSeq(Files, LAMBDA file : base \in {"", "."} \/ IsAt(file.path, 1, base \o "/"))
    IN  [i \in DOMAIN within |->
           [within[i] EXCEPT !.path =
              IF base \in {"", "."} THEN @ ELSE From(@, Len(base) + 2)]]

\* fileset, for a base written as it is in Files; the paths come in the order the
\* system lists the directories in.
Fileset(base, pattern) ==
    LET files == SelectSeq(Below(base), LAMBDA file : file.regular /\ Glob(pattern, file.path))
    IN  IF base \notin {"", "."} /\ Below(base) = <<>> THEN Error
        ELSE <<"set", [i \in DOMAIN files |-> Str(files[i].path)]>>

\* fileexists: a directory is an error, a pipe no file.
Exists(path) ==
    LET hits == {i \in DOMAIN Files : Files[i].path = path}
    IN  CASE path \in {".", "/"} \/ Below(path) # <<>> -> Error
          [] OTHER -> Bool(\E i \in hits : Files[i].regular)

PathBuiltins == {"basename", "dirname", "pathexpand", "abspath", "fileset", "fileexists", "file",
                 "base64encode", "base64decode"}

OnPaths(f, args) ==
    LET path == args[1][2]
    IN  CASE Len(args) # (IF f = "fileset" THEN 2 ELSE 1) -> Error
          [] \E i \in DOMAIN args : Kind(args[i]) # "string" -> Error
          [] f = "basename" -> Str(Basename(path))
          [] f = "dirname" -> Str(Dirname(path))
          [] f = "pathexpand" -> HomePath(path)
          [] f = "abspath" -> Str(Absolute(path))
          [] f = "fileset" -> Fileset(path, args[2][2])
          [] f = "fileexists" -> Exists(path)
          [] f = "file" -> FileText(path)
          [] f = "base64encode" ->
                 Str(Base64Encode([i \in 1 .. Len(path) |-> Code(Char(path, i))]))
          [] f = "base64decode" -> Base64Decode(path)
=============================================================================
