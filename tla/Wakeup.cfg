SPECIFICATION FairSpec
CONSTANTS
  Sizes = {2}
  Limits = {2, 3}
PROPERTIES MessageAnnounced 
