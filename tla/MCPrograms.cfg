\* The event queue: a program that posts, two that receive, on either platform;
\* an alert, a notice and a code of no family; a full queue of two.  The serial
\* port: reads of 2 or 3 bytes with and without a timeout, from a device that sends
\* up to 3.  The system is initialised more often than a container has places.  Two
\* makers make directories two deep; a file, of a size that an int can say or not,
\* is saved twice while it is read; a file of two bytes is downloaded in any number
\* of attempts.  Device control and commands have runs of their own, and here one
\* client and one caller.
SPECIFICATION FairSpec
CONSTANTS
    a = a  i1 = i1  p1 = p1  p2 = p2  r1 = r1  r2 = r2
    Posters = {p1}
    Receivers = {r1, r2}
    Platforms = {"x86", "nt966x"}
    PostedCodes = {8194, 39321}
    FirmwareCodes = {4097, 39321}
    QueueSize = 2
    MaxPosts = 3
    Settings <- TwoSettings
    Sizes = {0, 2, 3}
    Timouts <- SomeTimouts
    MaxSent = 3
    Clients = {a}
    MenuItems = {i1}
    MenuValues = {1}
    Missing = Missing  Empty = Empty  NULL = NULL
    MAX_STANDARD_NUM = 1
    Callers = {p1}
    Limits = {0, 1}
    POLLS = 1
    EXVAL_LIMIT = 1
    UINT = 3
    BufSizes = {1}
    OutputSize = 1
    Makers = {p1, p2}
    Paths <- TwoDeep
    SIZE_T = 32
    INT = 8
    FileSizes = {2, 5, 9}
    Offsets = {0, 2}
    MaxSaves = 2
    RemoteSize = 2
INVARIANTS
    NoOverrun StreamKept ReadInTime WritesPrefix
    SlashedDirsMade MappedIsRead 
PROPERTIES FaithfulDelivery BlockedPostReturns ReadReturns
