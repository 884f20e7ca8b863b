SPECIFICATION FairSpec
CONSTANTS
    e = e
    s = s
    t = t
    Objects <- MCObjects
    Names <- MCNames
    MaxVersion = 2
    MaxFaults = 1
    MaxRestarts = 1
PROPERTIES NeverOlder LiveKeepsEntry ListedStaysCached CacheConverges DeletedIsForgotten
