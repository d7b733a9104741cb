SPECIFICATION Spec
CONSTANTS
    s1 = s1  s2 = s2  w1 = w1  w2 = w2
    NoStudent = NoStudent
    Students = {s1, s2}
    Workers = {w1, w2}
    Runs <- SchedulerAndClient
    Classes <- TwoClasses
    MaxVersion <- OnceAndTwice
    MaxInsight <- TwiceForOne
PROPERTIES
    PublishedNeverModified
