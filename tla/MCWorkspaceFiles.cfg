SPECIFICATION Spec
CONSTANTS
 Admins = {a1, a2}
 Documents <- MCDocuments
 Uploads <- MCUploads
 Deletions <- MCDeletions
 First <- MCFirst
 None = None
 MaxRequests = 2
 MaxFaults = 2
SYMMETRY Somebody
INVARIANTS
  
  ValidFilesAreComplete
  
CHECK_DEADLOCK FALSE
