------------------------------ MODULE Download ------------------------------
(***************************************************************************)
(* Downloading with resumption: http_download of sample_download.c.  The   *)
(* remote file has RemoteSize bytes, numbered from 1, and does not change. *)
(* Server, network and libcurl are modelled by what they do to the caller: *)
(* a reply is the file from the place asked for, in any pieces, or an      *)
(* error, and may break off anywhere.  libcurl hands over the page of an   *)
(* error (here one byte, 0) only if the call does not resume.  The process *)
(* may die anywhere.                                                       *)
(***************************************************************************)
EXTENDS Integers, Sequences

CONSTANT RemoteSize

ASSUME DownloadAssumption == RemoteSize \in Nat

VARIABLES local,        \* the bytes of the local file; <<>> also if there is none
          transfer,     \* where the call is
          have_size,    \* what it has found, and resumes from
          received,     \* bytes that it has received
          status,       \* the response code
          downloadRet,
          page          \* ghost: an error page has been received

downloadVars == <<local, transfer, have_size, received, status, downloadRet, page>>

DownloadInit ==
    /\ local = <<>> /\ transfer = "idle" /\ have_size = 0 /\ received = 0
    /\ status = 0 /\ downloadRet = -1 /\ page = FALSE

Leave(value) == transfer' = "idle" /\ downloadRet' = value

\* vpk_exists and vpk_file_length; what is not there has length 0 here
http_download ==
    /\ transfer = "idle"
    /\ have_size' = Len(local) /\ received' = 0
    /\ transfer' = "open" /\ downloadRet' = -1
    /\ UNCHANGED <<local, status, page>>

\* curl_easy_init or fopen fails
CannotStart ==
    /\ transfer \in {"idle", "open"}
    /\ \E value \in {-1, -2} : Leave(value)
    /\ UNCHANGED <<local, have_size, received, status, page>>

\* slip: fopen with "w+"
OpenAnew ==
    /\ transfer = "open"
    /\ local' = <<>>
    /\ transfer' = "asked"
    /\ UNCHANGED <<have_size, received, status, downloadRet, page>>

\* fopen with "a+" leaves the file as it is
OpenLocal ==
    /\ transfer = "open"
    /\ transfer' = "asked"
    /\ UNCHANGED <<local, have_size, received, status, downloadRet, page>>

\* 200, or 206 for a range that is not empty
Reply ==
    /\ transfer = "asked"
    /\ have_size = 0 \/ have_size < RemoteSize
    /\ status' = 200 /\ transfer' = "body"
    /\ UNCHANGED <<local, have_size, received, downloadRet, page>>

\* 416, or 200 with the size that the local file has: no body
NothingLeft ==
    /\ transfer = "asked"
    /\ have_size > 0 /\ have_size >= RemoteSize
    /\ status' \in {200, 416} /\ transfer' = "end"
    /\ UNCHANGED <<local, have_size, received, downloadRet, page>>

ErrorPage ==
    /\ transfer = "asked" /\ have_size = 0
    /\ status' \in {404, 500} /\ transfer' = "end"
    /\ local' = Append(local, 0) /\ page' = TRUE
    /\ UNCHANGED <<have_size, received, downloadRet>>

write_data ==
    /\ transfer = "body"
    /\ have_size + received < RemoteSize
    /\ local' = Append(local, have_size + received + 1)
    /\ received' = received + 1
    /\ UNCHANGED <<transfer, have_size, status, downloadRet, page>>

BodyEnds ==
    /\ transfer = "body"
    /\ have_size + received >= RemoteSize
    /\ transfer' = "end"
    /\ UNCHANGED <<local, have_size, received, status, downloadRet, page>>

\* no connection, a reply that breaks off, a full disk, an error when resuming
PerformFails ==
    /\ transfer \in {"asked", "body"}
    /\ Leave(-1)
    /\ UNCHANGED <<local, have_size, received, status, page>>

DownloadReturns ==
    /\ transfer = "end"
    /\ Leave(IF status = 404 THEN -1 ELSE 0)
    /\ UNCHANGED <<local, have_size, received, status, page>>

\* what has been received and is not on the disk yet is lost
DownloaderDies ==
    /\ transfer \notin {"idle", "open"}
    /\ transfer' = "idle"
    /\ \E n \in 0 .. Len(local) - have_size : local' = SubSeq(local, 1, Len(local) - n)
    /\ UNCHANGED <<have_size, received, status, downloadRet, page>>

\* vpk_remove
RemoveLocal ==
    /\ transfer = "idle"
    /\ local' = <<>> /\ page' = FALSE /\ downloadRet' = -1
    /\ UNCHANGED <<transfer, have_size, received, status>>

DownloadNext ==
    \/ http_download \/ CannotStart \/ OpenLocal
    \/ Reply \/ NothingLeft \/ ErrorPage
    \/ write_data \/ BodyEnds \/ PerformFails \/ DownloadReturns
    \/ DownloaderDies \/ RemoveLocal

DownloadSpec == DownloadInit /\ [][DownloadNext]_downloadVars

----------------------------------------------------------------------------
(* Properties                                                              *)

(***************************************************************************)
(* Over any number of attempts that break off or die, and as long as the   *)
(* server has sent no error page, the local file is a beginning of the     *)
(* remote one, and when a call has returned 0 it is all of it.             *)
(***************************************************************************)
LocalIsRemote == ~page =>
    /\ Len(local) <= RemoteSize
    /\ \A i \in 1 .. Len(local) : local[i] = i
    /\ transfer = "idle" /\ downloadRet = 0 => Len(local) = RemoteSize
=============================================================================
