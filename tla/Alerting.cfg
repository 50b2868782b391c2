\* Three subjects, both kinds of listing, two restarts.
SPECIFICATION FairAlertSpec
CONSTANTS
    Subjects = {x1, x2, x3}
    Listings = {"anomalies", "all"}
    MaxRestarts = 2
PROPERTIES
    OnceUntilRecovered
    LastingAnomalyIsTold
CHECK_DEADLOCK FALSE
