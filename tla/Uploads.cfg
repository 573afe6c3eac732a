SPECIFICATION UploadsFairSpec
CONSTANTS
  Uploads = {u1, u2}
  NoUpload = nothing
  MaxQuota = 2
  MaxTrouble = 2
PROPERTIES AcceptedIsRead QueuedJobIsPicked KeepsIntake
CHECK_DEADLOCK FALSE
