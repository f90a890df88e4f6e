--------------------------- MODULE MCFileStaging ---------------------------
(* Small instances of FileStaging for TLC. *)
EXTENDS FileStaging

CONSTANTS a, b, x   \* two names below the session's roots, and one below those

\* A directory with a file in it, or two files.
MCPresent == {{<<a>>, <<a, x>>}, {<<a>>, <<b>>}}
MCShared  == {<<a>>}

\* A batch that puts one file in the place of another, and one that moves a
\* file into a directory it makes.
MCPlans == {<<DeleteOp(<<a>>), RenameOp(<<b>>, <<a>>)>>,
            <<MkdirOp(<<b>>), RenameOp(<<a>>, <<b, x>>)>>}
=============================================================================
