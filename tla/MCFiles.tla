-------------------------------- MODULE MCFiles --------------------------------
(* What happens in the tree of a small archive.                             *)
EXTENDS Files

Dir(toks) == [toks |-> toks, type |-> "DIRECTORY"]
File(toks) == [toks |-> toks, type |-> "REGULAR"]
Abs(toks) == Path(TRUE, toks)
Rel(toks) == Path(FALSE, toks)

\* The archive as tar writes it, its first header for "./"; and one without the
\* headers of /tmp and of a directory that holds a file.
Archive == <<Dir(<<>>), Dir(<<"dev">>), Dir(<<"tmp">>), Dir(<<"proc">>),
             Dir(<<"etc">>), File(<<"etc", "conf">>)>>
Partial == <<Dir(<<"dev">>), Dir(<<"proc">>), File(<<"etc", "a", "conf">>)>>

Scenario == [archive |-> Archive, garbage |-> Null, calls |-> {}, paths |-> {}, dirs |-> {},
             names |-> {}, counts |-> {}, lens |-> {}, seeks |-> {}, opens |-> 2]

MCScenarios ==
    { \* walking about
      [Scenario EXCEPT
         !.calls = {"open", "chdir", "fchdir", "badfd"},
         !.paths = {Rel(<<"..">>), Rel(<<"etc">>), Abs(<<"tmp", "..", ".", "dev">>), Rel(<<"conf">>)}],
      \* listing a directory, in two processes
      [Scenario EXCEPT
         !.opens = 1,
         !.calls = {"open", "chdir", "fchdir", "getdents", "fork"},
         !.paths = {Abs(<<>>), Rel(<<"..">>), Rel(<<"etc">>), Abs(<<"tmp", "..", ".", "dev">>), Rel(<<"conf">>)},
         !.counts = {2}],
      \* making directories
      [Scenario EXCEPT
         !.opens = 1,
         !.calls = {"mkdir", "chdir", "open", "getdents"},
         !.paths = {Rel(<<"a">>), Abs(<<"tmp">>), Rel(<<"..">>), Abs(<<"proc", "self">>)},
         !.dirs = {Rel(<<"a">>), Abs(<<"tmp", "a">>), Abs(<<"tmp", "a", "b">>), Abs(<<"tmp", "..">>), Abs(<<"dev", "a">>),
                   Abs(<<"no", "a">>), Abs(<<"etc", "conf", "a">>), Abs(<<>>)},
         !.counts = {1}],
      \* without a /tmp to mount on
      [Scenario EXCEPT
         !.archive = Partial,
         !.calls = {"mkdir", "chdir"},
         !.paths = {Abs(<<"tmp">>), Rel(<<"etc">>), Rel(<<"a">>), Rel(<<"..">>), Rel(<<"..", "..", "proc">>)},
         !.dirs = {Abs(<<"tmp", "a">>)}],
      \* with a wild mounted_on of the root
      [Scenario EXCEPT
         !.garbage = Wild,
         !.calls = {"open", "chdir", "mkdir", "getdents"},
         !.paths = {Rel(<<"..">>), Rel(<<"etc">>), Abs(<<"dev">>), Rel(<<"..", "etc">>)},
         !.dirs = {Rel(<<"..", "..", "a">>)},
         !.counts = {1}],
      \* files of every kind
      [Scenario EXCEPT
         !.calls = {"open", "read", "write", "readv", "writev"},
         !.paths = {Abs(<<"dev", "null">>), Abs(<<"proc", "self">>), Abs(<<"etc", "conf">>), Abs(<<"etc">>)},
         !.counts = {1}, !.lens = {<<0, 1>>, <<1, 1>>}],
      \* a file of tmpfs that the kernel writes, shared by a process and its child
      [Scenario EXCEPT
         !.calls = {"create", "kernel", "open", "fork", "read", "write", "writev", "readv", "lseek"},
         !.paths = {Abs(<<"tmp", "f">>)}, !.names = {"f"},
         !.counts = {0, 2}, !.lens = {<<1, 0, 1>>},
         !.seeks = {<<INT_RANGE + 1, "SEEK_SET">>, <<-1, "SEEK_CUR">>, <<1, "SEEK_END">>, <<0, "SEEK_DATA">>}],
      \* closing and leaving
      [Scenario EXCEPT
         !.calls = {"open", "close", "fork", "exit", "badfd"},
         !.paths = {Abs(<<"etc">>)}]}
=============================================================================
