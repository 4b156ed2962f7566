\* One maker makes a directory, with a slash behind its path and without.
SPECIFICATION MakeDirsSpec
CONSTANTS
    Makers = {m1}
    Paths <- TwoDeep
INVARIANT DirsMade
